---- MODULE Spec2Model ----
(***************************************************************************)
(* Verification model of the data-synchronisation core of slingshot-api:   *)
(*   - RateLimiter (src/src/services/rateLimiter.js): the request gate,    *)
(*     its FIFO queue, single worker loop, penalty and backoff handling;   *)
(*   - DataCache.determinePollingMode (src/src/services/dataCache.js) and  *)
(*     TradovateDataCollector polling (src/src/services/tradovateClient.js)*)
(*                                                                         *)
(* Time is the value of Date.now() in milliseconds.  JavaScript runs each  *)
(* callback to its next await without interleaving, so one action is one   *)
(* callback (a call from outside, a timer firing, a promise settling)      *)
(* together with everything it runs synchronously or in microtasks.        *)
(***************************************************************************)
EXTENDS Integers, Sequences, FiniteSets, TLC

(***************************************************************************)
(* Bounds of the model.                                                    *)
(***************************************************************************)
MaxRequests == 2
MaxTicks == 2
MaxRetries == 3
MaxAccounts == 1
MaxFetches == 4
MaxChains == 2
MaxOverrides == 1
MaxWrites == 2
MaxCacheTicks == 2
MaxOrders == 3
MaxDeepFetches == 7
MaxRepeatedOverrides == 2

(***************************************************************************)
(* Program constants.                                                      *)
(***************************************************************************)
minRequestInterval == 1000
defaultRetryDelay == 5000
maxRetryAttempts == 3
CaptchaPenaltyMs == 60 * 60 * 1000
HealthyQueueLimit == 10
StaleAfterMs == 10 * 60 * 1000

Reqs == 1..MaxRequests
TickStep == minRequestInterval \div 2
CacheTickStep == StaleAfterMs \div 2
\* Date.now() when the limiter is constructed: far from the epoch, so that
\* Date.now() - lastRequestTime (initially 0) is never short of the interval.
StartTime == 2 * minRequestInterval

VARIABLES
    now,                  \* Date.now()
    requestQueue,         \* this.requestQueue: sequence of queued requests
    isProcessing,         \* this.isProcessing
    lastRequestTime,      \* this.lastRequestTime
    penaltyActive,        \* this.penaltyActive
    penaltyEndTime,       \* this.penaltyEndTime
    currentPenaltyTicket, \* this.currentPenaltyTicket
    attempts,             \* request.attempts of every request
    outcome,              \* state of the promise returned by queueRequest
    workerPc,             \* where the processQueue loop is suspended
    wakeAt,               \* due time of the worker's pending sleep() timer
    executing,            \* requests whose thunk has started and not settled
    retryTimers,          \* pending 429-backoff timers: [req, due]
    execCount,            \* history: number of times each thunk was started
    starts,               \* history: start time of the latest execution, if any
    windowEnd,            \* history: penalty end set by the request's last response
    timedCount,           \* history: number of timed-penalty responses
    count429,             \* history: number of 429 failures
    captchas,             \* history: CAPTCHA responses handled: [req, at]
    pollingState,         \* polling_state.current_mode of every account
    positionsCache,       \* positions_cache row of every account, if any
    ordersCache,          \* orders_cache row of every account, if any
    balanceCache,         \* account_balances row of every account, if any
    timersMap,            \* this.timers: account -> its accountTimers object
    timers,               \* pending poll timers: [acct, kind, obj, interval]
    chains,               \* call chains suspended at an upstream fetch
    enrichments,          \* background order enrichments in progress
    reverts,              \* pending auto-revert timers of every account
    nextObj,              \* identity of the next accountTimers object
    fetches,              \* number of upstream fetches answered so far
    justCompleted,        \* accounts whose poll succeeded in the last step
    events,               \* history: calls that returned in the last step
    isInitialized,        \* DataCache.isInitialized
    accountsCache,        \* accounts_cache row of every account, if any
    lastWrite,            \* history: the latest cache write call, if any
    lastResponse,         \* history: the latest answer of a read route
    writes,               \* number of cache write calls made directly
    orderList,            \* the argument of the latest groupRelatedOrders call
    groupedOrders         \* what that call returned

gateVars == <<requestQueue, isProcessing, lastRequestTime, penaltyActive,
              penaltyEndTime, currentPenaltyTicket, attempts, outcome,
              workerPc, wakeAt, executing, retryTimers, execCount, starts,
              windowEnd, timedCount, count429, captchas>>

pollVars == <<pollingState, positionsCache, ordersCache, balanceCache,
              timersMap, timers, chains, enrichments, reverts, nextObj,
              fetches, justCompleted, events, isInitialized, accountsCache,
              lastWrite, lastResponse, writes, orderList, groupedOrders>>

vars == <<now, gateVars, pollVars>>

(***************************************************************************)
(* Upstream responses.  response.data carries the penalty markers          *)
(* 'p-ticket' (a string), 'p-time' (seconds, as decimal digits) and        *)
(* 'p-captcha' (a flag); an absent marker is the empty string, the empty   *)
(* digit sequence or FALSE, all falsy in JavaScript.                       *)
(***************************************************************************)
NoTicket == ""
NoTime == <<>>
PTickets == {NoTicket, "T1"}
PTimes == {NoTime, <<5>>}

Responses ==
    [hasData : {TRUE}, pTicket : PTickets, pTime : PTimes, pCaptcha : BOOLEAN]
        \cup {[hasData |-> FALSE, pTicket |-> NoTicket, pTime |-> NoTime,
               pCaptcha |-> FALSE]}

\* error.response.status of a thrown error; 0 stands for an error that has
\* no response (a network failure).
ErrorStatuses == {429, 500, 0}

RECURSIVE parseIntDigits(_, _)
parseIntDigits(digits, acc) ==
    IF digits = <<>> THEN acc
    ELSE parseIntDigits(Tail(digits), 10 * acc + Head(digits))

\* parseInt of a string of decimal digits.
parseInt(digits) == parseIntDigits(digits, 0)

RECURSIVE pow2(_)
pow2(n) == IF n = 0 THEN 1 ELSE 2 * pow2(n - 1)

(***************************************************************************)
(* The limiter as a record, so that the synchronous part of a callback can *)
(* be composed of the methods it calls.                                    *)
(***************************************************************************)
Gate ==
    [requestQueue |-> requestQueue, isProcessing |-> isProcessing,
     lastRequestTime |-> lastRequestTime, penaltyActive |-> penaltyActive,
     penaltyEndTime |-> penaltyEndTime,
     currentPenaltyTicket |-> currentPenaltyTicket, attempts |-> attempts,
     outcome |-> outcome, workerPc |-> workerPc, wakeAt |-> wakeAt,
     executing |-> executing, retryTimers |-> retryTimers,
     execCount |-> execCount, starts |-> starts, windowEnd |-> windowEnd,
     timedCount |-> timedCount, count429 |-> count429, captchas |-> captchas]

SetGate(g) ==
    /\ requestQueue' = g.requestQueue
    /\ isProcessing' = g.isProcessing
    /\ lastRequestTime' = g.lastRequestTime
    /\ penaltyActive' = g.penaltyActive
    /\ penaltyEndTime' = g.penaltyEndTime
    /\ currentPenaltyTicket' = g.currentPenaltyTicket
    /\ attempts' = g.attempts
    /\ outcome' = g.outcome
    /\ workerPc' = g.workerPc
    /\ wakeAt' = g.wakeAt
    /\ executing' = g.executing
    /\ retryTimers' = g.retryTimers
    /\ execCount' = g.execCount
    /\ starts' = g.starts
    /\ windowEnd' = g.windowEnd
    /\ timedCount' = g.timedCount
    /\ count429' = g.count429
    /\ captchas' = g.captchas

\* resolve / reject of a request's promise: settling a settled promise is a
\* no-op.
Resolve(g, r) ==
    IF g.outcome[r] = "pending"
    THEN [g EXCEPT !.outcome[r] = "resolved"] ELSE g

Reject(g, r) ==
    IF g.outcome[r] = "pending"
    THEN [g EXCEPT !.outcome[r] = "rejected"] ELSE g


(***************************************************************************)
(* processQueue: the worker loop, from a given point up to its next await. *)
(***************************************************************************)
\* const request = this.requestQueue.shift(); await this.executeRequest(request)
\* up to `await requestFn()`.  shift() of an empty queue yields undefined and
\* the destructuring in executeRequest throws outside its try block: the
\* loop dies and isProcessing stays true.
executeRequest(g, t) ==
    IF g.requestQueue = <<>>
    THEN [g EXCEPT !.workerPc = "crashed"]
    ELSE LET r == Head(g.requestQueue) IN
         [g EXCEPT !.requestQueue = Tail(g.requestQueue),
                   !.lastRequestTime = t,
                   !.executing = g.executing \cup {r},
                   !.workerPc = "awaitRequest",
                   !.execCount[r] = g.execCount[r] + 1,
                   !.starts = <<t>>]

EnsureMinInterval_NoWait(g, t) == executeRequest(g, t)

\* The minimum-interval check of the loop body.
EnsureMinInterval(g, t) ==
    LET timeSinceLastRequest == t - g.lastRequestTime IN
    IF timeSinceLastRequest < minRequestInterval
    THEN [g EXCEPT !.workerPc = "intervalSleep",
                   !.wakeAt = t + (minRequestInterval - timeSinceLastRequest)]
    ELSE executeRequest(g, t)

WorkerLoop_NoPenaltyWait(g, t) ==
    IF g.requestQueue = <<>>
    THEN [g EXCEPT !.isProcessing = FALSE, !.workerPc = "idle"]
    ELSE EnsureMinInterval(g, t)

\* One pass of the while loop, from its condition.
WorkerLoop(g, t) ==
    IF g.requestQueue = <<>>
    THEN [g EXCEPT !.isProcessing = FALSE, !.workerPc = "idle"]
    ELSE IF g.penaltyActive /\ t < g.penaltyEndTime
         THEN [g EXCEPT !.workerPc = "penaltySleep",
                        !.wakeAt = t + (g.penaltyEndTime - t)]
         ELSE EnsureMinInterval(g, t)

processQueue_NoReentryGuard(g, t) ==
    IF g.requestQueue = <<>>
    THEN g
    ELSE WorkerLoop([g EXCEPT !.isProcessing = TRUE], t)

processQueue(g, t) ==
    IF g.isProcessing \/ g.requestQueue = <<>>
    THEN g
    ELSE WorkerLoop([g EXCEPT !.isProcessing = TRUE], t)

(***************************************************************************)
(* Handling of a settled thunk.                                            *)
(***************************************************************************)
isPenaltyResponse(response) ==
    IF ~response.hasData THEN FALSE
    ELSE \/ response.pTicket # NoTicket
         \/ response.pTime # NoTime
         \/ response.pCaptcha

handlePenaltyResponse_RetryOnCap(g, response, r, t) ==
    IF response.pCaptcha
    THEN Reject([g EXCEPT !.penaltyActive = TRUE,
                          !.penaltyEndTime = t + CaptchaPenaltyMs,
                          !.currentPenaltyTicket = "null",
                          !.windowEnd[r] = t + CaptchaPenaltyMs,
                          !.captchas = g.captchas \cup {[req |-> r, at |-> t]}],
                r)
    ELSE IF response.pTicket # NoTicket /\ response.pTime # NoTime
    THEN LET waitSeconds == parseInt(response.pTime)
             g1 == [g EXCEPT !.penaltyActive = TRUE,
                             !.penaltyEndTime = t + (waitSeconds * 1000),
                             !.currentPenaltyTicket = response.pTicket,
                             !.attempts[r] = g.attempts[r] + 1,
                             !.windowEnd[r] = t + (waitSeconds * 1000),
                             !.timedCount[r] = g.timedCount[r] + 1]
         IN IF g1.attempts[r] <= maxRetryAttempts
            THEN [g1 EXCEPT !.requestQueue = <<r>> \o g1.requestQueue]
            ELSE Reject(g1, r)
    ELSE g

handlePenaltyResponse_CaptchaRequeued(g, response, r, t) ==
    IF response.pCaptcha
    THEN Reject([g EXCEPT !.penaltyActive = TRUE,
                          !.penaltyEndTime = t + CaptchaPenaltyMs,
                          !.currentPenaltyTicket = "null",
                          !.windowEnd[r] = t + CaptchaPenaltyMs,
                          !.captchas = g.captchas \cup {[req |-> r, at |-> t]},
                          !.requestQueue = <<r>> \o g.requestQueue],
                r)
    ELSE IF response.pTicket # NoTicket /\ response.pTime # NoTime
    THEN LET waitSeconds == parseInt(response.pTime)
             g1 == [g EXCEPT !.penaltyActive = TRUE,
                             !.penaltyEndTime = t + (waitSeconds * 1000),
                             !.currentPenaltyTicket = response.pTicket,
                             !.attempts[r] = g.attempts[r] + 1,
                             !.windowEnd[r] = t + (waitSeconds * 1000),
                             !.timedCount[r] = g.timedCount[r] + 1]
         IN IF g1.attempts[r] < maxRetryAttempts
            THEN [g1 EXCEPT !.requestQueue = <<r>> \o g1.requestQueue]
            ELSE Reject(g1, r)
    ELSE g

handlePenaltyResponse_RequeuesAtTail(g, response, r, t) ==
    IF response.pCaptcha
    THEN Reject([g EXCEPT !.penaltyActive = TRUE,
                          !.penaltyEndTime = t + CaptchaPenaltyMs,
                          !.currentPenaltyTicket = "null",
                          !.windowEnd[r] = t + CaptchaPenaltyMs,
                          !.captchas = g.captchas \cup {[req |-> r, at |-> t]}],
                r)
    ELSE IF response.pTicket # NoTicket /\ response.pTime # NoTime
    THEN LET waitSeconds == parseInt(response.pTime)
             g1 == [g EXCEPT !.penaltyActive = TRUE,
                             !.penaltyEndTime = t + (waitSeconds * 1000),
                             !.currentPenaltyTicket = response.pTicket,
                             !.attempts[r] = g.attempts[r] + 1,
                             !.windowEnd[r] = t + (waitSeconds * 1000),
                             !.timedCount[r] = g.timedCount[r] + 1]
         IN IF g1.attempts[r] < maxRetryAttempts
            THEN [g1 EXCEPT !.requestQueue = Append(g1.requestQueue, r)]
            ELSE Reject(g1, r)
    ELSE g

handlePenaltyResponse(g, response, r, t) ==
    IF response.pCaptcha
    THEN Reject([g EXCEPT !.penaltyActive = TRUE,
                          !.penaltyEndTime = t + CaptchaPenaltyMs,
                          !.currentPenaltyTicket = "null",
                          !.windowEnd[r] = t + CaptchaPenaltyMs,
                          !.captchas = g.captchas \cup {[req |-> r, at |-> t]}],
                r)
    ELSE IF response.pTicket # NoTicket /\ response.pTime # NoTime
    THEN LET waitSeconds == parseInt(response.pTime)
             g1 == [g EXCEPT !.penaltyActive = TRUE,
                             !.penaltyEndTime = t + (waitSeconds * 1000),
                             !.currentPenaltyTicket = response.pTicket,
                             !.attempts[r] = g.attempts[r] + 1,
                             !.windowEnd[r] = t + (waitSeconds * 1000),
                             !.timedCount[r] = g.timedCount[r] + 1]
         IN IF g1.attempts[r] < maxRetryAttempts
            THEN [g1 EXCEPT !.requestQueue = <<r>> \o g1.requestQueue]
            ELSE Reject(g1, r)
    ELSE g

handleRequestError_FlatBackoff(g, status, r, t) ==
    IF status = 429
    THEN LET g1 == [g EXCEPT !.attempts[r] = g.attempts[r] + 1,
                             !.count429[r] = g.count429[r] + 1]
             backoffDelay == defaultRetryDelay
         IN IF g1.attempts[r] < maxRetryAttempts
            THEN [g1 EXCEPT !.retryTimers =
                     g1.retryTimers \cup {[req |-> r, due |-> t + backoffDelay]}]
            ELSE Reject(g1, r)
    ELSE Reject(g, r)

handleRequestError(g, status, r, t) ==
    IF status = 429
    THEN LET g1 == [g EXCEPT !.attempts[r] = g.attempts[r] + 1,
                             !.count429[r] = g.count429[r] + 1]
             backoffDelay == defaultRetryDelay * pow2(g1.attempts[r] - 1)
         IN IF g1.attempts[r] < maxRetryAttempts
            THEN [g1 EXCEPT !.retryTimers =
                     g1.retryTimers \cup {[req |-> r, due |-> t + backoffDelay]}]
            ELSE Reject(g1, r)
    ELSE Reject(g, r)

\* executeRequest after `await requestFn()` returned a response.
OnResponse(g, response, r, t) ==
    IF isPenaltyResponse(response)
    THEN handlePenaltyResponse(g, response, r, t)
    ELSE Resolve(g, r)

isHealthy == ~penaltyActive /\ Len(requestQueue) < HealthyQueueLimit

(***************************************************************************)
(* DataCache and TradovateDataCollector.                                   *)
(*                                                                         *)
(* A positions payload is the list of the positions' netPos; an orders     *)
(* payload is the list of the orders' statuses, with a flag telling        *)
(* whether some order carries both limitPrice and orderType (what          *)
(* getOrders takes for enriched data).  A cache row is <<>> when absent    *)
(* and <<row>> otherwise.                                                  *)
(***************************************************************************)
Accts == 1..MaxAccounts
Modes == {"IDLE", "ACTIVE", "CRITICAL"}
Kinds == {"balance", "positions", "orders"}

PositionsPayloads == {<<>>, <<1, 0, -2>>, <<1, 1, 1>>}
OrdersPayloads ==
    {<<>>, <<"Working", "Filled", "Working", "Working">>,
     <<"Working", "Working", "Working", "Working">>}
BalancePayloads == {<<100>>}

pollingIntervals ==
    [IDLE |-> [balance |-> 5 * 60 * 1000, positions |-> 2 * 60 * 1000,
               orders |-> 2 * 60 * 1000],
     ACTIVE |-> [balance |-> 60 * 1000, positions |-> 15 * 1000,
                 orders |-> 10 * 1000],
     CRITICAL |-> [balance |-> 30 * 1000, positions |-> 5 * 1000,
                   orders |-> 5 * 1000]]

\* The collector and its cache as a record.
Poll ==
    [pollingState |-> pollingState, positionsCache |-> positionsCache,
     ordersCache |-> ordersCache, balanceCache |-> balanceCache,
     timersMap |-> timersMap, timers |-> timers, enrichments |-> enrichments,
     reverts |-> reverts, nextObj |-> nextObj, justCompleted |-> {},
     events |-> {}, isInitialized |-> isInitialized,
     accountsCache |-> accountsCache, lastWrite |-> lastWrite,
     lastResponse |-> lastResponse, writes |-> writes,
     orderList |-> orderList, groupedOrders |-> groupedOrders, now |-> now,
     pollFailed |-> FALSE]

SetPoll(p) ==
    /\ pollingState' = p.pollingState
    /\ positionsCache' = p.positionsCache
    /\ ordersCache' = p.ordersCache
    /\ balanceCache' = p.balanceCache
    /\ timersMap' = p.timersMap
    /\ timers' = p.timers
    /\ enrichments' = p.enrichments
    /\ reverts' = p.reverts
    /\ nextObj' = p.nextObj
    /\ justCompleted' = p.justCompleted
    /\ events' = p.events
    /\ isInitialized' = p.isInitialized
    /\ accountsCache' = p.accountsCache
    /\ lastWrite' = p.lastWrite
    /\ lastResponse' = p.lastResponse
    /\ writes' = p.writes
    /\ orderList' = p.orderList
    /\ groupedOrders' = p.groupedOrders

checkInitialized_Always(p) == TRUE

\* DataCache._checkInitialized.
checkInitialized(p) == p.isInitialized

\* DataCache.initialize: open the store; its rows are kept across runs.
initialize(p) == [p EXCEPT !.isInitialized = TRUE]

\* DataCache.close.
close(p) == [p EXCEPT !.isInitialized = FALSE]

\* DataCache.cacheAccountData: INSERT OR REPLACE of the whole row.
cacheAccountData(p, a, accountData) ==
    IF ~checkInitialized(p) THEN p
    ELSE [p EXCEPT !.accountsCache[a] =
            <<[data |-> accountData, lastUpdated |-> p.now]>>]

cacheAccountBalance_KeepsTimestamp(p, a, balanceData) ==
    IF ~checkInitialized(p) THEN p
    ELSE [p EXCEPT !.balanceCache[a] =
            <<[data |-> balanceData,
               lastUpdated |-> IF p.balanceCache[a] = <<>> THEN p.now
                               ELSE p.balanceCache[a][1].lastUpdated]>>]

\* DataCache.cacheAccountBalance.
cacheAccountBalance(p, a, balanceData) ==
    IF ~checkInitialized(p) THEN p
    ELSE [p EXCEPT !.balanceCache[a] =
            <<[data |-> balanceData, lastUpdated |-> p.now]>>]

cachePositions_AccumulatesCount(p, a, positionsData) ==
    LET openPositions ==
            Cardinality({i \in DOMAIN positionsData : positionsData[i] # 0})
        before == IF p.positionsCache[a] = <<>> THEN 0
                  ELSE p.positionsCache[a][1].openPositionsCount
    IN IF ~checkInitialized(p) THEN p
       ELSE [p EXCEPT !.positionsCache[a] =
                <<[data |-> positionsData, lastUpdated |-> p.now,
                   openPositionsCount |-> before + openPositions]>>]

\* DataCache.cachePositions: the row replaces the previous one.
cachePositions(p, a, positionsData) ==
    LET openPositions ==
            Cardinality({i \in DOMAIN positionsData : positionsData[i] # 0})
    IN IF ~checkInitialized(p) THEN p
       ELSE [p EXCEPT !.positionsCache[a] =
                <<[data |-> positionsData, lastUpdated |-> p.now,
                   openPositionsCount |-> openPositions]>>]

cacheOrders_CountsNonTerminal(p, a, ordersData) ==
    LET workingOrders ==
            Cardinality({i \in DOMAIN ordersData.statuses :
                            ordersData.statuses[i]
                                \notin {"Filled", "Canceled", "Rejected"}})
    IN IF ~checkInitialized(p) THEN p
       ELSE [p EXCEPT !.ordersCache[a] =
                <<[data |-> ordersData, lastUpdated |-> p.now,
                   workingOrdersCount |-> workingOrders]>>]

\* DataCache.cacheOrders: an order counts as working when its status (or
\* ordStatus) is 'Working'.
cacheOrders(p, a, ordersData) ==
    LET workingOrders ==
            Cardinality({i \in DOMAIN ordersData.statuses :
                            ordersData.statuses[i] = "Working"})
    IN IF ~checkInitialized(p) THEN p
       ELSE [p EXCEPT !.ordersCache[a] =
                <<[data |-> ordersData, lastUpdated |-> p.now,
                   workingOrdersCount |-> workingOrders]>>]

\* DataCache.updatePollingState.
updatePollingState(p, a, mode) ==
    IF ~checkInitialized(p) THEN p
    ELSE [p EXCEPT !.pollingState[a] = mode]

\* What a read returns for a stored row: the row with its age, or nothing.
Aged(p, row) ==
    IF ~checkInitialized(p) \/ row = <<>> THEN <<>>
    ELSE <<[data |-> row[1].data, lastUpdated |-> row[1].lastUpdated,
            age |-> p.now - row[1].lastUpdated]>>

\* DataCache.getCachedAccountData.
getCachedAccountData(p, a) == Aged(p, p.accountsCache[a])

\* DataCache.getCachedAccountBalance.
getCachedAccountBalance(p, a) == Aged(p, p.balanceCache[a])

\* DataCache.getCachedPositions.
getCachedPositions(p, a) ==
    LET row == p.positionsCache[a]
    IN IF ~checkInitialized(p) \/ row = <<>> THEN <<>>
       ELSE <<[data |-> row[1].data, lastUpdated |-> row[1].lastUpdated,
               age |-> p.now - row[1].lastUpdated,
               openPositionsCount |-> row[1].openPositionsCount]>>

\* DataCache.getCachedOrders.
getCachedOrders(p, a) ==
    LET row == p.ordersCache[a]
    IN IF ~checkInitialized(p) \/ row = <<>> THEN <<>>
       ELSE <<[data |-> row[1].data, lastUpdated |-> row[1].lastUpdated,
               age |-> p.now - row[1].lastUpdated,
               workingOrdersCount |-> row[1].workingOrdersCount]>>

\* DataCache.getPollingState.
getPollingState(p, a) ==
    IF ~checkInitialized(p) THEN <<>> ELSE <<p.pollingState[a]>>

PollingModeOf_InclusiveThresholds(openPositions, workingOrders) ==
    IF openPositions = 0 /\ workingOrders = 0 THEN "IDLE"
    ELSE IF openPositions >= 2 \/ workingOrders >= 3 THEN "CRITICAL"
    ELSE "ACTIVE"

PollingModeOf(openPositions, workingOrders) ==
    IF openPositions = 0 /\ workingOrders = 0 THEN "IDLE"
    ELSE IF openPositions > 2 \/ workingOrders > 3 THEN "CRITICAL"
    ELSE "ACTIVE"

\* DataCache.determinePollingMode: an absent row counts as 0.
determinePollingMode(p, a) ==
    LET positions == getCachedPositions(p, a)
        orders == getCachedOrders(p, a)
        openPositions ==
            IF positions = <<>> THEN 0 ELSE positions[1].openPositionsCount
        workingOrders ==
            IF orders = <<>> THEN 0 ELSE orders[1].workingOrdersCount
    IN [mode |-> PollingModeOf(openPositions, workingOrders),
        openPositions |-> openPositions, workingOrders |-> workingOrders]

\* The account row is written first when it is missing (the rows of the
\* other tables refer to it).
ensureAccount(p, a) ==
    IF getCachedAccountData(p, a) = <<>> /\ checkInitialized(p)
    THEN cacheAccountData(p, a, <<a>>)
    ELSE p

\* TradovateClient.getOrders after the order list arrived: cache the basic
\* orders unless the cache holds enriched ones, then start the background
\* enrichment, which for an empty list runs to its cache write at once.
getOrders(p, a, rawStatuses) ==
    LET basicOrders == [statuses |-> rawStatuses, enriched |-> FALSE]
        p0 == ensureAccount(p, a)
        existingOrders == getCachedOrders(p0, a)
        hasEnrichedData ==
            existingOrders # <<>> /\ existingOrders[1].data.enriched
        p1 == IF ~hasEnrichedData THEN cacheOrders(p0, a, basicOrders)
              ELSE p0
    IN IF rawStatuses = <<>>
       THEN cacheOrders(p1, a, basicOrders)
       ELSE [p1 EXCEPT !.enrichments =
                p1.enrichments \cup {[acct |-> a, statuses |-> rawStatuses]}]

\* A frame of a suspended call chain.
Frame(op, kind, obj) == [op |-> op, kind |-> kind, obj |-> obj]

\* TradovateDataCollector.startPollingTimer on the accountTimers object obj.
startPollingTimer(p, a, dataType, obj) ==
    LET mode == p.pollingState[a]
        interval == pollingIntervals[mode][dataType]
        existing == {tm \in p.timers :
                        tm.acct = a /\ tm.kind = dataType /\ tm.obj = obj}
    IN [p EXCEPT !.timers =
            (p.timers \ existing)
                \cup {[acct |-> a, kind |-> dataType, obj |-> obj,
                       interval |-> interval]}]

\* initializeAccountPolling after its two initial polls: set the mode from
\* the cache, create a new accountTimers object and start its three timers.
FinishInitialize(p, a) ==
    LET pollingInfo == determinePollingMode(p, a)
        p1 == updatePollingState(p, a, pollingInfo.mode)
        obj == p1.nextObj
        p2 == startPollingTimer(
                 startPollingTimer(
                    startPollingTimer(p1, a, "balance", obj),
                    a, "positions", obj),
                 a, "orders", obj)
    IN [p2 EXCEPT !.timersMap[a] = <<obj>>, !.nextObj = obj + 1]

\* initializeAccountPolling up to its first await: the positions poll.
initializeAccountPolling(p, cont) ==
    [p |-> p,
     stack |-> <<Frame("fetch", "positions", 0), Frame("init1", "-", 0)>>
                  \o cont]

\* restartAccountPolling: clear the timers of the current accountTimers
\* object, then initialize again.
restartAccountPolling(p, a, cont) ==
    LET cleared ==
            IF p.timersMap[a] = <<>> THEN p.timers
            ELSE {tm \in p.timers :
                     ~(tm.acct = a /\ tm.obj = p.timersMap[a][1])}
    IN initializeAccountPolling([p EXCEPT !.timers = cleared], cont)

\* A call that returned in the step: forcePollingMode ("forceReturned", with
\* the forced mode), the auto-revert callback ("revertFired" when it starts,
\* with the mode stored before, and "revertDone"), handleRateLimit
\* ("rateLimitHandled"), forceDataRefresh ("refreshResolved", with "failed"
\* when one of its three polls failed and "clean" otherwise) and a poll whose
\* checkPollingModeChange changed the mode ("modeChanged", with the mode it
\* stored); and the poll_error a failed poll emits ("pollError", with the
\* data kind in place of the mode).
Event(type, a, mode) == [type |-> type, acct |-> a, mode |-> mode]

\* Whether a poll of the forceDataRefresh in frame f has failed so far.
Failed(p, f) == IF p.pollFailed THEN "failed" ELSE f.kind

\* forceDataRefresh after its three polls: re-evaluate the mode and, when it
\* differs from the stored one, store it and restart the three timers of the
\* account's current accountTimers object.
FinishRefresh(p, a) ==
    LET pollingInfo == determinePollingMode(p, a)
        currentMode == getPollingState(p, a)
        p1 == updatePollingState(p, a, pollingInfo.mode)
    IN IF <<pollingInfo.mode>> = currentMode THEN p
       ELSE IF p.timersMap[a] = <<>> THEN p1
       ELSE LET accountTimers == p.timersMap[a][1]
            IN startPollingTimer(
                  startPollingTimer(
                     startPollingTimer(p1, a, "balance", accountTimers),
                     a, "positions", accountTimers),
                  a, "orders", accountTimers)

\* A callee returned: run the chain on, up to its next upstream fetch or
\* its end.  The result is the new state and what is left of the stack.
RECURSIVE Return(_, _, _)
Return(p, a, stack) ==
    IF stack = <<>> THEN [p |-> p, stack |-> <<>>]
    ELSE LET f == Head(stack)
             rest == Tail(stack)
         IN CASE f.op = "init1" ->
                   [p |-> p,
                    stack |-> <<Frame("fetch", "orders", 0),
                                Frame("init2", "-", 0)>> \o rest]
              [] f.op = "init2" -> Return(FinishInitialize(p, a), a, rest)
              [] f.op = "pollOk" ->
                   Return([p EXCEPT
                             !.justCompleted = @ \cup {a},
                             !.pollFailed = FALSE,
                             !.events =
                                 IF f.kind \in Modes
                                 THEN @ \cup {Event("modeChanged", a, f.kind)}
                                 ELSE @], a, rest)
              [] f.op = "pollFail" ->
                   Return([p EXCEPT
                             !.pollFailed = TRUE,
                             !.events =
                                 IF f.kind = "rateLimit"
                                 THEN @ \cup {Event("rateLimitHandled", a,
                                                    "IDLE")}
                                 ELSE @], a, rest)
              [] f.op = "timerCb" ->
                   Return(startPollingTimer(p, a, f.kind, f.obj), a, rest)
              [] f.op = "force" ->
                   Return([p EXCEPT
                             !.reverts[a] = @ + 1,
                             !.events = @ \cup {Event("forceReturned", a,
                                                      f.kind)}], a, rest)
              [] f.op = "forceNoRevert" ->
                   Return([p EXCEPT
                             !.events = @ \cup {Event("forceReturned", a,
                                                      f.kind)}], a, rest)
              [] f.op = "revert" ->
                   Return([p EXCEPT
                             !.events = @ \cup {Event("revertDone", a,
                                                      f.kind)}], a, rest)
              [] f.op = "refresh1" ->
                   [p |-> p,
                    stack |-> <<Frame("fetch", "orders", 0),
                                Frame("refresh2", Failed(p, f), 0)>>
                                 \o rest]
              [] f.op = "refresh2" ->
                   [p |-> p,
                    stack |-> <<Frame("fetch", "balance", 0),
                                Frame("refresh3", Failed(p, f), 0)>>
                                 \o rest]
              [] f.op = "refresh3" ->
                   Return([FinishRefresh(p, a) EXCEPT
                             !.events = @ \cup {Event("refreshResolved", a,
                                                      Failed(p, f))}],
                          a, rest)
              [] OTHER -> Return(p, a, rest)

checkPollingModeChange_KeepsMode(p, a, cont) ==
    Return(p, a, <<Frame("pollOk", "-", 0)>> \o cont)

\* checkPollingModeChange, called at the end of a successful poll.
checkPollingModeChange(p, a, cont) ==
    LET currentMode == p.pollingState[a]
        newPollingInfo == determinePollingMode(p, a)
    IN IF currentMode # newPollingInfo.mode
       THEN restartAccountPolling(
                updatePollingState(p, a, newPollingInfo.mode), a,
                <<Frame("pollOk", newPollingInfo.mode, 0)>> \o cont)
       ELSE Return(p, a, <<Frame("pollOk", "-", 0)>> \o cont)

\* handleRateLimit: fall back to IDLE and restart the account's polling.
handleRateLimit(p, a, cont) ==
    restartAccountPolling(updatePollingState(p, a, "IDLE"), a,
                          <<Frame("pollFail", "rateLimit", 0)>> \o cont)

pollDataType_ThrowsOnError(p, a, dataType, result, cont) ==
    IF result.kind = "ok"
    THEN LET p1 == CASE dataType = "balance" ->
                         cacheAccountBalance(ensureAccount(p, a), a,
                                             result.data)
                      [] dataType = "positions" ->
                         cachePositions(ensureAccount(p, a), a, result.data)
                      [] OTHER -> getOrders(p, a, result.data)
         IN checkPollingModeChange(p1, a, cont)
    ELSE [p |-> [p EXCEPT !.events = @ \cup {Event("pollError", a, dataType)}],
          stack |-> <<>>]

\* pollDataType from the moment its upstream call settles.  result.kind is
\* "ok" (with the payload), "rateLimit" (an error whose message holds '429'
\* or 'rate limit') or "error".
pollDataType(p, a, dataType, result, cont) ==
    IF result.kind = "ok"
    THEN LET p1 == CASE dataType = "balance" ->
                         cacheAccountBalance(ensureAccount(p, a), a,
                                             result.data)
                      [] dataType = "positions" ->
                         cachePositions(ensureAccount(p, a), a, result.data)
                      [] OTHER -> getOrders(p, a, result.data)
         IN checkPollingModeChange(p1, a, cont)
    ELSE LET p1 == [p EXCEPT !.events =
                       @ \cup {Event("pollError", a, dataType)}]
         IN IF result.kind = "rateLimit"
            THEN handleRateLimit(p1, a, cont)
            ELSE Return(p1, a, <<Frame("pollFail", "-", 0)>> \o cont)

FetchResults(dataType) ==
    {[kind |-> k, data |-> <<>>] : k \in {"rateLimit", "error"}}
        \cup {[kind |-> "ok", data |-> d] :
                d \in CASE dataType = "balance" -> BalancePayloads
                        [] dataType = "positions" -> PositionsPayloads
                        [] OTHER -> OrdersPayloads}

\* State after loadAccounts: every account has the polling state IDLE, no
\* cache row and no timer.
PollInit ==
    /\ pollingState = [a \in Accts |-> "IDLE"]
    /\ positionsCache = [a \in Accts |-> <<>>]
    /\ ordersCache = [a \in Accts |-> <<>>]
    /\ balanceCache = [a \in Accts |-> <<>>]
    /\ timersMap = [a \in Accts |-> <<>>]
    /\ timers = {}
    /\ chains = {}
    /\ enrichments = {}
    /\ reverts = [a \in Accts |-> 0]
    /\ nextObj = 1
    /\ fetches = 0
    /\ justCompleted = {}
    /\ events = {}
    /\ lastWrite = <<>>
    /\ lastResponse = <<>>
    /\ writes = 0

(***************************************************************************)
(* Initial state: a freshly constructed RateLimiter.                       *)
(***************************************************************************)
GateInit ==
    /\ requestQueue = <<>>
    /\ isProcessing = FALSE
    /\ lastRequestTime = 0
    /\ penaltyActive = FALSE
    /\ penaltyEndTime = 0
    /\ currentPenaltyTicket = "null"
    /\ attempts = [r \in Reqs |-> 0]
    /\ outcome = [r \in Reqs |-> "new"]
    /\ workerPc = "idle"
    /\ wakeAt = 0
    /\ executing = {}
    /\ retryTimers = {}
    /\ execCount = [r \in Reqs |-> 0]
    /\ starts = <<>>
    /\ windowEnd = [r \in Reqs |-> 0]
    /\ timedCount = [r \in Reqs |-> 0]
    /\ count429 = [r \in Reqs |-> 0]
    /\ captchas = {}

\* TradovateDataCollector.initialize: the cache is initialized and
\* loadAccounts has written the account rows.
CollectorInit ==
    /\ isInitialized = TRUE
    /\ accountsCache =
          [a \in Accts |-> <<[data |-> <<a>>, lastUpdated |-> StartTime]>>]

\* No order list has been grouped.
NoGrouping ==
    /\ orderList = <<>>
    /\ groupedOrders = <<>>

Init ==
    /\ now = StartTime
    /\ GateInit
    /\ PollInit
    /\ CollectorInit
    /\ NoGrouping

(***************************************************************************)
(* Actions of the limiter.                                                 *)
(***************************************************************************)
\* queueRequest(requestFn): push the entry, then processQueue().  Requests
\* are numbered in the order of the calls.
queueRequest(r) ==
    /\ outcome[r] = "new"
    /\ \A q \in Reqs : q < r => outcome[q] # "new"
    /\ LET g1 == [Gate EXCEPT !.requestQueue = Append(requestQueue, r),
                              !.attempts[r] = 0,
                              !.outcome[r] = "pending"]
       IN SetGate(processQueue(g1, now))
    /\ UNCHANGED <<now, pollVars>>

\* The worker's penalty sleep() ends: clear the penalty, go on with the
\* minimum-interval check.
PenaltySleepEnds ==
    /\ workerPc = "penaltySleep"
    /\ now >= wakeAt
    /\ SetGate(EnsureMinInterval([Gate EXCEPT !.penaltyActive = FALSE,
                                              !.currentPenaltyTicket = "null"],
                                 now))
    /\ UNCHANGED <<now, pollVars>>

\* The worker's minimum-interval sleep() ends: take the head and execute it.
IntervalSleepEnds ==
    /\ workerPc = "intervalSleep"
    /\ now >= wakeAt
    /\ SetGate(executeRequest(Gate, now))
    /\ UNCHANGED <<now, pollVars>>

RECURSIVE SumOver(_, _)
SumOver(f, S) ==
    IF S = {} THEN 0
    ELSE LET x == CHOOSE y \in S : TRUE IN f[x] + SumOver(f, S \ {x})

\* The upstream answers with a retried fault (timed penalty or 429) at most
\* MaxRetries times in a run.
RetryBudgetLeft == SumOver(attempts, Reqs) < MaxRetries

IsTimedPenalty(response) ==
    /\ response.hasData /\ ~response.pCaptcha
    /\ response.pTicket # NoTicket /\ response.pTime # NoTime

\* The running thunk resolves with a response; the worker loop goes on.
RequestReturns(r, response) ==
    /\ workerPc = "awaitRequest"
    /\ r \in executing
    /\ IsTimedPenalty(response) => RetryBudgetLeft
    /\ LET g1 == [Gate EXCEPT !.executing = executing \ {r}]
       IN SetGate(WorkerLoop(OnResponse(g1, response, r, now), now))
    /\ UNCHANGED <<now, pollVars>>

\* The running thunk throws; the worker loop goes on.
RequestThrows(r, status) ==
    /\ workerPc = "awaitRequest"
    /\ r \in executing
    /\ status = 429 => RetryBudgetLeft
    /\ LET g1 == [Gate EXCEPT !.executing = executing \ {r}]
       IN SetGate(WorkerLoop(handleRequestError(g1, status, r, now), now))
    /\ UNCHANGED <<now, pollVars>>

\* The setTimeout callback of a 429 backoff: unshift the request, then
\* processQueue().
BackoffTimerFires(tm) ==
    /\ tm \in retryTimers
    /\ now >= tm.due
    /\ LET g1 == [Gate EXCEPT !.retryTimers = retryTimers \ {tm},
                              !.requestQueue = <<tm.req>> \o requestQueue]
       IN SetGate(processQueue(g1, now))
    /\ UNCHANGED <<now, pollVars>>

RECURSIVE RejectAll(_, _)
RejectAll(g, q) ==
    IF q = <<>> THEN g ELSE RejectAll(Reject(g, Head(q)), Tail(q))

\* clearQueue(): reject every queued request and empty the queue.
clearQueue ==
    /\ requestQueue # <<>>
    /\ SetGate([RejectAll(Gate, requestQueue) EXCEPT !.requestQueue = <<>>])
    /\ UNCHANGED <<now, pollVars>>

(***************************************************************************)
(* Passage of time.  Timers never fire early; they may fire late.          *)
(***************************************************************************)
Deadlines ==
    {tm.due : tm \in retryTimers}
        \cup (IF workerPc \in {"penaltySleep", "intervalSleep"}
              THEN {wakeAt} ELSE {})
        \cup {penaltyEndTime}

Minimum(S) == CHOOSE x \in S : \A y \in S : x <= y

Tick ==
    /\ now + TickStep <= StartTime + MaxTicks * TickStep
    /\ now' = now + TickStep
    /\ UNCHANGED <<gateVars, pollVars>>

\* Time runs up to the next due timer or the end of the penalty window.
AdvanceToDeadline ==
    /\ \E d \in Deadlines : d > now
    /\ now' = Minimum({d \in Deadlines : d > now})
    /\ UNCHANGED <<gateVars, pollVars>>

Next ==
    \/ \E r \in Reqs : queueRequest(r)
    \/ PenaltySleepEnds
    \/ IntervalSleepEnds
    \/ \E r \in Reqs, response \in Responses : RequestReturns(r, response)
    \/ \E r \in Reqs, status \in ErrorStatuses : RequestThrows(r, status)
    \/ \E tm \in retryTimers : BackoffTimerFires(tm)
    \/ clearQueue
    \/ Tick
    \/ AdvanceToDeadline

Spec == Init /\ [][Next]_vars

(***************************************************************************)
(* Properties of the limiter.                                              *)
(***************************************************************************)
InQueue(r) == \E i \in 1..Len(requestQueue) : requestQueue[i] = r
HasTimer(r) == \E tm \in retryTimers : tm.req = r
Held(r) == InQueue(r) \/ r \in executing \/ HasTimer(r)
\* The step starts the thunk of r.
Started(r) == execCount'[r] > execCount[r]

\* C1: at most one request thunk is executing (started and not yet settled)
\* at any instant, for every interleaving of queueRequest calls, backoff
\* timer firings and worker wake-ups.
C1_AtMostOneExecuting == Cardinality(executing) <= 1

\* A backoff timer fired and requeued a request while a thunk was running.
C1_Witness ==
    \E r \in executing : \E q \in Reqs \ {r} : InQueue(q) /\ count429[q] > 0

\* C2: every execution starts at least minRequestInterval after the start
\* of the execution before it, re-executions of a retried request included.
C2_MinIntervalBetweenStarts ==
    [][\A r \in Reqs :
          (Started(r) /\ starts # <<>>)
              => now' - starts[1] >= minRequestInterval]_vars

\* A retried request is running again, exactly one interval after the
\* previous start.
C2_Witness ==
    \E r \in executing :
        /\ execCount[r] >= 2
        /\ starts = <<now>>
        /\ SumOver(execCount, Reqs) >= 3

\* C3: no thunk starts while a penalty window is active: every execution
\* starts at a time >= penaltyEndTime, whatever path queued the request.
C3_NoStartInsidePenaltyWindow ==
    [][\A r \in Reqs : Started(r) => now' >= penaltyEndTime']_vars

\* A request requeued by a timed penalty is running after the window, and
\* a request that came back from a 429 backoff has run as well.
C3_Witness ==
    \E r \in executing :
        /\ timedCount[r] > 0
        /\ now >= penaltyEndTime
        /\ \E q \in Reqs : count429[q] > 0 /\ execCount[q] >= 2

\* C4: a request answered with a timed penalty every time is executed at
\* most 3 times; each re-execution starts after the window set by its
\* previous response; at the cap it is rejected and never executed again.
C4_TimedPenaltyRetryCap ==
    /\ [](\A r \in Reqs :
            /\ execCount[r] <= 3
            /\ timedCount[r] = 3 => (outcome[r] = "rejected" /\ ~Held(r)))
    /\ [][\A r \in Reqs :
            /\ (Started(r) /\ timedCount[r] > 0) => now' >= windowEnd[r]
            /\ outcome[r] = "rejected" => ~Started(r)]_vars

\* A request was answered with a timed penalty on each of its 3 executions.
C4_Witness ==
    \E r \in Reqs :
        timedCount[r] = 3 /\ execCount[r] = 3 /\ outcome[r] = "rejected"

\* C5: a CAPTCHA response rejects the request at once and for good, sets
\* the penalty window to end exactly 3,600,000 ms after the response is
\* handled, and no request is executed before that window ends.
C5_CaptchaSuspension ==
    /\ [](\A c \in captchas : outcome[c.req] = "rejected" /\ ~Held(c.req))
    /\ [][/\ \A c \in captchas' \ captchas :
                /\ c.at = now
                /\ penaltyActive'
                /\ penaltyEndTime' = now + 3600000
          /\ \A r \in Reqs : \A c \in captchas :
                Started(r) => (r # c.req /\ now' >= c.at + 3600000)]_vars

\* Another request is running after a CAPTCHA window has elapsed.
C5_Witness ==
    \E c \in captchas : executing # {} /\ now >= c.at + 3600000

\* C6 (as claimed): isHealthy() is true exactly when no penalty window is
\* active (now >= penaltyEndTime) and the queue holds fewer than 10 entries.
C6_HealthyIffNoActiveWindow ==
    isHealthy <=> (now >= penaltyEndTime /\ Len(requestQueue) < 10)

\* C7: a request failing with 429 comes back to the front of the queue only
\* after defaultRetryDelay * 2^(attempts-1) (5000 ms after the first failure,
\* 10000 ms after the second), runs at most 3 times, and is rejected for
\* good after the third 429.
C7_BackoffOn429 ==
    /\ [](\A r \in Reqs :
            /\ execCount[r] <= 3
            /\ HasTimer(r) => (~InQueue(r) /\ r \notin executing)
            /\ count429[r] = 3 => (outcome[r] = "rejected" /\ ~Held(r)))
    /\ [][/\ \A tm \in retryTimers' \ retryTimers :
                /\ tm.due = now + 5000 * pow2(attempts'[tm.req] - 1)
                /\ (count429'[tm.req] = 1 /\ execCount[tm.req] = 1)
                      => tm.due = now + 5000
                /\ (count429'[tm.req] = 2 /\ execCount[tm.req] = 2)
                      => tm.due = now + 10000
          /\ \A tm \in retryTimers \ retryTimers' :
                /\ now >= tm.due
                /\ \/ tm.req \in executing'
                   \/ (requestQueue' # <<>> /\ Head(requestQueue') = tm.req)
          /\ \A r \in Reqs :
                (Started(r) /\ count429[r] = 3) => FALSE]_vars

\* A request failed with 429 on each of its 3 executions.
C7_Witness ==
    \E r \in Reqs :
        count429[r] = 3 /\ execCount[r] = 3 /\ outcome[r] = "rejected"

\* C8 (as claimed, in the form a finite run refutes): when the limiter has
\* nothing left to do (worker loop ended, no backoff timer pending), every
\* request given to queueRequest has been resolved or rejected.
C8_EveryRequestSettles ==
    (workerPc = "idle" /\ retryTimers = {})
        => \A r \in Reqs : outcome[r] # "pending"

\* The request r is put back into the queue by the step: by the handler of a
\* timed penalty, or by the backoff timer of a 429.
Requeued(r) ==
    \/ timedCount'[r] > timedCount[r] /\ outcome'[r] = "pending"
    \/ \E tm \in retryTimers : tm.req = r /\ tm \notin retryTimers'

WorkerRunning == workerPc \in {"penaltySleep", "intervalSleep", "awaitRequest"}

\* C37 (its safety half): whenever clearQueue() is called, isProcessing is
\* true only while a worker loop is running, so that a later queueRequest
\* finds either a running loop or the flag down and starts one.
C37_ClearQueueLeavesGateLive == isProcessing => WorkerRunning

(***************************************************************************)
(* Actions of the collector.                                               *)
(***************************************************************************)
\* A chain goes on with the result of a synchronous run.
Continue(c, run) ==
    /\ SetPoll(run.p)
    /\ chains' = (chains \ {c})
                    \cup (IF run.stack = <<>> THEN {}
                          ELSE {[acct |-> c.acct, stack |-> run.stack]})

Spawn(a, run) ==
    /\ SetPoll(run.p)
    /\ chains' = chains \cup (IF run.stack = <<>> THEN {}
                              ELSE {[acct |-> a, stack |-> run.stack]})

\* startDataCollection: the first initializeAccountPolling of an account.
StartAccount(a) ==
    /\ timersMap[a] = <<>>
    /\ \A c \in chains : c.acct # a
    /\ fetches = 0
    /\ Spawn(a, initializeAccountPolling(Poll, <<>>))
    /\ UNCHANGED <<now, gateVars, fetches>>

\* A poll timer fires: its callback polls, then reschedules itself on the
\* accountTimers object it was created with.
PollTimerFires(tm) ==
    /\ tm \in timers
    /\ Cardinality(chains) < MaxChains
    /\ Spawn(tm.acct,
             [p |-> [Poll EXCEPT !.timers = timers \ {tm}],
              stack |-> <<Frame("fetch", tm.kind, 0),
                          Frame("timerCb", tm.kind, tm.obj)>>])
    /\ UNCHANGED <<now, gateVars, fetches>>

\* The upstream call a chain awaits settles, in a run of at most cap calls.
Settle(c, result, cap) ==
    /\ c \in chains
    /\ fetches < cap
    /\ result \in FetchResults(Head(c.stack).kind)
    /\ Continue(c, pollDataType(Poll, c.acct, Head(c.stack).kind, result,
                                Tail(c.stack)))
    /\ fetches' = fetches + 1
    /\ UNCHANGED <<now, gateVars>>

FetchSettles(c, result) == Settle(c, result, MaxFetches)

\* enrichOrdersInBackground reaches its cache write.
EnrichmentCompletes(e, priced) ==
    /\ e \in enrichments
    /\ SetPoll(cacheOrders(ensureAccount(
                               [Poll EXCEPT !.enrichments = enrichments \ {e}],
                               e.acct),
                           e.acct,
                           [statuses |-> e.statuses, enriched |-> priced]))
    /\ UNCHANGED <<now, gateVars, chains, fetches>>

\* Manual overrides of an account that are in progress or await their
\* auto-revert.
OverridesPending(a) ==
    reverts[a]
        + Cardinality({c \in chains :
              /\ c.acct = a
              /\ \E i \in DOMAIN c.stack :
                    c.stack[i].op \in {"force", "forceNoRevert"}})

\* forcePollingMode(accountId, mode, reason, durationMs); withRevert tells
\* whether durationMs > 0.  At most cap overrides of the account are under
\* way or await their reversion.
Force(a, mode, withRevert, cap) ==
    /\ Cardinality(chains) < MaxChains
    /\ OverridesPending(a) < cap
    /\ Spawn(a, restartAccountPolling(
                    updatePollingState(Poll, a, mode), a,
                    <<Frame(IF withRevert THEN "force" ELSE "forceNoRevert",
                            mode, 0)>>))
    /\ UNCHANGED <<now, gateVars, fetches>>

forcePollingMode(a, mode, withRevert) ==
    Force(a, mode, withRevert, MaxOverrides)

autoRevert_KeepsStoredMode(p, a, cont) == restartAccountPolling(p, a, cont)

\* The callback of the auto-revert timer: store the mode derived from the
\* cache, then restart the account's polling.
autoRevert(p, a, cont) ==
    LET pollingInfo == determinePollingMode(p, a)
    IN restartAccountPolling(updatePollingState(p, a, pollingInfo.mode), a,
                             cont)

\* The auto-revert timer of a forced mode fires.
RevertTimerFires(a) ==
    /\ reverts[a] > 0
    /\ Cardinality(chains) < MaxChains
    /\ Spawn(a, autoRevert(
                    [Poll EXCEPT
                       !.reverts[a] = @ - 1,
                       !.events = {Event("revertFired", a, pollingState[a])}],
                    a, <<Frame("revert", pollingState[a], 0)>>))
    /\ UNCHANGED <<now, gateVars, fetches>>

\* forceDataRefresh(accountId) up to its first await: the positions poll.
forceDataRefresh(a) ==
    /\ Cardinality(chains) < MaxChains
    /\ \A c \in chains :
          \A i \in DOMAIN c.stack :
              c.stack[i].op \notin {"refresh1", "refresh2", "refresh3"}
    /\ Spawn(a, [p |-> Poll,
                 stack |-> <<Frame("fetch", "positions", 0),
                             Frame("refresh1", "clean", 0)>>])
    /\ UNCHANGED <<now, gateVars, fetches>>

PollNext ==
    \/ \E a \in Accts : StartAccount(a)
    \/ \E tm \in timers : PollTimerFires(tm)
    \/ \E c \in chains :
          \E result \in FetchResults(Head(c.stack).kind) :
              FetchSettles(c, result)
    \/ \E e \in enrichments, priced \in BOOLEAN : EnrichmentCompletes(e, priced)
    \/ \E a \in Accts, mode \in Modes, withRevert \in BOOLEAN :
          forcePollingMode(a, mode, withRevert)
    \/ \E a \in Accts : RevertTimerFires(a)

PollSpec == Init /\ [][PollNext]_vars

\* The collector left to its timers, one poll at a time, for longer runs.
SequentialTimerFires(tm) ==
    /\ chains = {}
    /\ PollTimerFires(tm)

DeepFetchSettles(c, result) == Settle(c, result, MaxDeepFetches)

TimerNext ==
    \/ \E a \in Accts : StartAccount(a)
    \/ \E tm \in timers : SequentialTimerFires(tm)
    \/ \E c \in chains :
          \E result \in FetchResults(Head(c.stack).kind) :
              DeepFetchSettles(c, result)

TimerSpec == Init /\ [][TimerNext]_vars

\* The collector under repeated manual overrides of its accounts.
RepeatedForce(a, mode, withRevert) ==
    Force(a, mode, withRevert, MaxRepeatedOverrides)

OverrideNext ==
    \/ \E a \in Accts, mode \in Modes, withRevert \in BOOLEAN :
          RepeatedForce(a, mode, withRevert)
    \/ \E c \in chains :
          \E result \in FetchResults(Head(c.stack).kind) :
              FetchSettles(c, result)
    \/ \E a \in Accts : RevertTimerFires(a)

OverrideSpec == Init /\ [][OverrideNext]_vars

(***************************************************************************)
(* The collector on top of the gate: the upstream call of a poll is a      *)
(* request of the RateLimiter, and the fetch frame of the chain holds the   *)
(* number of the request it awaits.                                         *)
(***************************************************************************)
\* The account has been started and its two initial fetches found neither
\* positions nor orders: it is IDLE with its three timers pending.
StartedQuietly ==
    /\ pollingState = [a \in Accts |-> "IDLE"]
    /\ positionsCache =
          [a \in Accts |-> <<[data |-> <<>>, lastUpdated |-> StartTime,
                              openPositionsCount |-> 0]>>]
    /\ ordersCache =
          [a \in Accts |->
              <<[data |-> [statuses |-> <<>>, enriched |-> FALSE],
                 lastUpdated |-> StartTime, workingOrdersCount |-> 0]>>]
    /\ balanceCache = [a \in Accts |-> <<>>]
    /\ timersMap = [a \in Accts |-> <<a>>]
    /\ timers = {[acct |-> a, kind |-> dataType, obj |-> a,
                  interval |-> pollingIntervals["IDLE"][dataType]] :
                    a \in Accts, dataType \in Kinds}
    /\ chains = {}
    /\ enrichments = {}
    /\ reverts = [a \in Accts |-> 0]
    /\ nextObj = MaxAccounts + 1
    /\ fetches = 2 * MaxAccounts
    /\ justCompleted = {MaxAccounts}
    /\ events = {}
    /\ lastWrite = <<>>
    /\ lastResponse = <<>>
    /\ writes = 0
    /\ isInitialized = TRUE
    /\ accountsCache = [a \in Accts |-> <<[data |-> <<a>>,
                                           lastUpdated |-> StartTime]>>]

\* The request a call of queueRequest would put in the queue next.
IsNextRequest(r) ==
    /\ outcome[r] = "new"
    /\ \A q \in Reqs : q < r => outcome[q] # "new"

\* makeRateLimitedRequest for the fetch at the head of the stack.
Awaiting(stack, r) ==
    <<Frame("fetch", Head(stack).kind, r)>> \o Tail(stack)

\* What the rejection of request r looks like to pollDataType: an error of
\* the rate-limit class when the last of its executions failed with 429.
RejectionKinds(r) ==
    IF attempts[r] >= maxRetryAttempts /\ count429[r] > 0
    THEN IF timedCount[r] = 0 THEN {"rateLimit"} ELSE {"rateLimit", "error"}
    ELSE {"error"}

\* A poll timer fires while no other callback is under way (the intervals
\* are minutes, a fetch lasts milliseconds) and its callback queues its
\* fetch at the gate.
GatedTimerFires(tm, r) ==
    /\ tm \in timers
    /\ chains = {}
    /\ IsNextRequest(r)
    /\ Spawn(tm.acct,
             [p |-> [Poll EXCEPT !.timers = timers \ {tm}],
              stack |-> <<Frame("fetch", tm.kind, r),
                          Frame("timerCb", tm.kind, tm.obj)>>])
    /\ SetGate(processQueue([Gate EXCEPT
                                !.requestQueue = Append(requestQueue, r),
                                !.attempts[r] = 0,
                                !.outcome[r] = "pending"], now))
    /\ UNCHANGED <<now, fetches>>

\* The request a chain awaits has been resolved or rejected: pollDataType
\* runs on, and when it comes to another fetch, queues it as request next.
GatedFetchSettles(c, result, next) ==
    /\ c \in chains
    /\ result \in FetchResults(Head(c.stack).kind)
    /\ LET r == Head(c.stack).obj
           run == pollDataType(Poll, c.acct, Head(c.stack).kind, result,
                               Tail(c.stack))
       IN /\ r \in Reqs
          /\ \/ outcome[r] = "resolved" /\ result.kind = "ok"
             \/ outcome[r] = "rejected" /\ result.kind \in RejectionKinds(r)
          /\ IF run.stack = <<>>
             THEN /\ next = 0
                  /\ Continue(c, run)
                  /\ UNCHANGED gateVars
             ELSE /\ next \in Reqs
                  /\ IsNextRequest(next)
                  /\ Continue(c, [p |-> run.p,
                                  stack |-> Awaiting(run.stack, next)])
                  /\ SetGate(processQueue(
                        [Gate EXCEPT
                           !.requestQueue = Append(requestQueue, next),
                           !.attempts[next] = 0,
                           !.outcome[next] = "pending"], now))
    /\ fetches' = fetches + 1
    /\ UNCHANGED now

GatedInit ==
    /\ now = StartTime
    /\ GateInit
    /\ StartedQuietly
    /\ NoGrouping

GatedNext ==
    \/ \E tm \in timers, r \in Reqs : GatedTimerFires(tm, r)
    \/ \E c \in chains, next \in Reqs \cup {0} :
          \E result \in FetchResults(Head(c.stack).kind) :
              GatedFetchSettles(c, result, next)
    \/ PenaltySleepEnds
    \/ IntervalSleepEnds
    \/ \E r \in Reqs, response \in Responses : RequestReturns(r, response)
    \/ \E r \in Reqs, status \in ErrorStatuses : RequestThrows(r, status)
    \/ \E tm \in retryTimers : BackoffTimerFires(tm)
    \/ Tick
    \/ AdvanceToDeadline

GatedSpec == GatedInit /\ [][GatedNext]_vars

\* TradovateDataCollector.stop: clear the timers of every accountTimers
\* object in this.timers, empty this.timers and close the cache.
stop(p) ==
    close([p EXCEPT
             !.timers = {tm \in p.timers :
                            ~(/\ p.timersMap[tm.acct] # <<>>
                              /\ tm.obj = p.timersMap[tm.acct][1])},
             !.timersMap = [a \in Accts |-> <<>>]])

\* stop() is called, whatever callbacks are under way.
Stop ==
    /\ isInitialized
    /\ SetPoll(stop(Poll))
    /\ UNCHANGED <<now, gateVars, chains, fetches>>

\* The upstream call a chain awaits settles, in a run of MaxFetches calls
\* after the two of each account's start.
LateFetchSettles(c, result) == Settle(c, result, 2 * MaxAccounts + MaxFetches)

\* The started collector is left to its timers and stopped at some moment.
StopNext ==
    \/ \E tm \in timers : SequentialTimerFires(tm)
    \/ \E c \in chains :
          \E result \in FetchResults(Head(c.stack).kind) :
              LateFetchSettles(c, result)
    \/ Stop

StopSpec == GatedInit /\ [][StopNext]_vars

\* The order list upstream holds: FirstOrders until an orders fetch has
\* completed, LaterOrders from then on (the cache of the started account
\* holds the empty list of its start until the first completion).
FirstOrders == <<"Working", "Filled", "Working", "Working">>
LaterOrders == <<"Working", "Working", "Working", "Working">>

UpstreamOrders(a) ==
    IF ordersCache[a] # <<>> /\ ordersCache[a][1].data.statuses = <<>>
    THEN FirstOrders
    ELSE LaterOrders

\* The upstream call a chain awaits settles; an orders fetch that succeeds
\* returns the list upstream holds.
VersionedFetchSettles(c, result) ==
    /\ c \in chains
    /\ (Head(c.stack).kind = "orders" /\ result.kind = "ok")
          => result.data = UpstreamOrders(c.acct)
    /\ LateFetchSettles(c, result)

\* The started collector with the background enrichment of its orders.
EnrichNext ==
    \/ \E tm \in timers : SequentialTimerFires(tm)
    \/ \E c \in chains :
          \E result \in FetchResults(Head(c.stack).kind) :
              VersionedFetchSettles(c, result)
    \/ \E e \in enrichments, priced \in BOOLEAN : EnrichmentCompletes(e, priced)

EnrichSpec == GatedInit /\ [][EnrichNext]_vars

\* The collector with manual refreshes in place of manual overrides.
RefreshNext ==
    \/ \E a \in Accts : StartAccount(a)
    \/ \E tm \in timers : PollTimerFires(tm)
    \/ \E c \in chains :
          \E result \in FetchResults(Head(c.stack).kind) :
              FetchSettles(c, result)
    \/ \E e \in enrichments, priced \in BOOLEAN : EnrichmentCompletes(e, priced)
    \/ \E a \in Accts : forceDataRefresh(a)

RefreshSpec == Init /\ [][RefreshNext]_vars

(***************************************************************************)
(* The cache and the read routes of the account API.  Any caller may write *)
(* any payload; the orders below carry every class of order status.        *)
(***************************************************************************)
CacheKinds == {"account", "balance", "positions", "orders"}

CachePayloads(a, kind) ==
    CASE kind = "account" -> {<<a>>}
      [] kind = "balance" -> {<<100>>, <<250>>}
      [] kind = "positions" -> PositionsPayloads
      [] OTHER ->
           {[statuses |-> st, enriched |-> FALSE] :
               st \in {<<"Working", "Suspended", "Filled">>,
                       <<"Working", "Canceled", "Rejected", "Working">>}}

\* The stored row of an account for a kind of data.
Row(a, kind) ==
    CASE kind = "account" -> accountsCache[a]
      [] kind = "balance" -> balanceCache[a]
      [] kind = "positions" -> positionsCache[a]
      [] kind = "orders" -> ordersCache[a]
      [] OTHER -> <<[data |-> <<pollingState[a]>>]>>

\* What a read of the entry returns.
Read(a, kind) ==
    CASE kind = "account" -> getCachedAccountData(Poll, a)
      [] kind = "balance" -> getCachedAccountBalance(Poll, a)
      [] kind = "positions" -> getCachedPositions(Poll, a)
      [] kind = "orders" -> getCachedOrders(Poll, a)
      [] OTHER -> getPollingState(Poll, a)

\* A DataCache that was constructed and not initialized yet, over an empty
\* store.
CacheInit ==
    /\ now = StartTime
    /\ GateInit
    /\ PollInit
    /\ isInitialized = FALSE
    /\ accountsCache = [a \in Accts |-> <<>>]
    /\ NoGrouping

\* The record of a write call: what was written, when, whether the cache
\* was initialized, whether the entry existed before and whether it held the
\* same payload.
WriteCall(a, kind, data, before) ==
    <<[acct |-> a, kind |-> kind, data |-> data, at |-> now,
       applied |-> isInitialized, existed |-> before # <<>>,
       same |-> before # <<>> /\ before[1].data = data]>>

CacheInitialize ==
    /\ ~isInitialized
    /\ SetPoll(initialize(Poll))
    /\ UNCHANGED <<now, gateVars, chains, fetches>>

CacheClose ==
    /\ isInitialized
    /\ SetPoll(close(Poll))
    /\ UNCHANGED <<now, gateVars, chains, fetches>>

\* A call of cacheAccountData, cacheAccountBalance, cachePositions or
\* cacheOrders.
CacheWrite(a, kind, data) ==
    /\ writes < MaxWrites
    /\ LET p1 == CASE kind = "account" -> cacheAccountData(Poll, a, data)
                   [] kind = "balance" -> cacheAccountBalance(Poll, a, data)
                   [] kind = "positions" -> cachePositions(Poll, a, data)
                   [] OTHER -> cacheOrders(Poll, a, data)
       IN SetPoll([p1 EXCEPT !.lastWrite =
                                 WriteCall(a, kind, data, Row(a, kind)),
                             !.writes = @ + 1])
    /\ UNCHANGED <<now, gateVars, chains, fetches>>

\* A call of updatePollingState.
CacheModeWrite(a, mode) ==
    /\ writes < MaxWrites
    /\ SetPoll([updatePollingState(Poll, a, mode) EXCEPT
                  !.lastWrite = WriteCall(a, "pollingState", <<mode>>,
                                          Row(a, "pollingState")),
                  !.writes = @ + 1])
    /\ UNCHANGED <<now, gateVars, chains, fetches>>

\* Time passes.
CacheTick ==
    /\ now < StartTime + MaxCacheTicks * CacheTickStep
    /\ now' = now + CacheTickStep
    /\ UNCHANGED <<gateVars, pollVars>>

\* DataCache.getAccountSnapshot.
getAccountSnapshot(p, a) ==
    [account |-> getCachedAccountData(p, a),
     balance |-> getCachedAccountBalance(p, a),
     positions |-> getCachedPositions(p, a),
     orders |-> getCachedOrders(p, a),
     pollingState |-> getPollingState(p, a)]

IsFresh_Inclusive(age) == age <= StaleAfterMs

\* The test of the read routes: cached.age < 10 * 60 * 1000.
IsFresh(age) == age < StaleAfterMs

\* The answer of a read route: the HTTP status, whether the entry is served
\* ("fresh" or "stale"), reported as not available yet ("empty") or fetched
\* from upstream by the route itself ("direct"), and the upstream calls the
\* route makes.  available and existed tell whether the cache was available
\* and the entry present when the route ran.
Answer(route, a, p, row, kind, status, cached, upstream) ==
    <<[route |-> route, acct |-> a, available |-> p.isInitialized,
       existed |-> row # <<>>, kind |-> kind, status |-> status,
       stale |-> kind = "stale",
       age |-> IF cached = <<>> THEN 0 ELSE cached[1].age,
       data |-> IF cached = <<>> THEN <<>> ELSE cached[1].data,
       upstream |-> upstream]>>

\* GET /:accountId/balance, /positions and /orders.
ReadEntry(p, a, route) ==
    LET cached == CASE route = "balance" -> getCachedAccountBalance(p, a)
                    [] route = "positions" -> getCachedPositions(p, a)
                    [] OTHER -> getCachedOrders(p, a)
        row == CASE route = "balance" -> p.balanceCache[a]
                 [] route = "positions" -> p.positionsCache[a]
                 [] OTHER -> p.ordersCache[a]
    IN IF ~p.isInitialized
       THEN Answer(route, a, p, row, "direct", 200, <<>>, {route})
       ELSE IF cached # <<>> /\ IsFresh(cached[1].age)
       THEN Answer(route, a, p, row, "fresh", 200, cached, {})
       ELSE IF cached # <<>>
       THEN Answer(route, a, p, row, "stale", 200, cached, {})
       ELSE Answer(route, a, p, row, "empty",
                   IF route = "balance" THEN 503 ELSE 200, <<>>, {})

\* GET /:accountId/summary: served from the snapshot when it has a balance;
\* otherwise the handler goes on to fetch balance, positions and orders from
\* upstream itself.
ReadSummary(p, a) ==
    LET snapshot == getAccountSnapshot(p, a)
        row == p.balanceCache[a]
    IN IF p.isInitialized /\ snapshot.balance # <<>>
       THEN IF IsFresh(snapshot.balance[1].age)
            THEN Answer("summary", a, p, row, "fresh", 200,
                        snapshot.balance, {})
            ELSE Answer("summary", a, p, row, "stale", 200,
                        snapshot.balance, {})
       ELSE Answer("summary", a, p, row, "direct", 200, <<>>,
                   {"balance", "positions", "orders"})

Routes == {"balance", "positions", "orders", "summary"}

RouteAnswer(p, a, route) ==
    IF route = "summary" THEN ReadSummary(p, a) ELSE ReadEntry(p, a, route)

\* A client calls one of the four read routes.
ReadRoute(a, route) ==
    /\ SetPoll([Poll EXCEPT !.lastResponse = RouteAnswer(Poll, a, route)])
    /\ UNCHANGED <<now, gateVars, chains, fetches>>

CacheNext ==
    \/ CacheInitialize
    \/ CacheClose
    \/ \E a \in Accts, kind \in CacheKinds :
          \E data \in CachePayloads(a, kind) : CacheWrite(a, kind, data)
    \/ \E a \in Accts, mode \in Modes : CacheModeWrite(a, mode)
    \/ CacheTick
    \/ \E a \in Accts, route \in Routes : ReadRoute(a, route)

CacheSpec == CacheInit /\ [][CacheNext]_vars

(***************************************************************************)
(* Properties of the polling mode.                                         *)
(***************************************************************************)
CachedOpenPositions(a) ==
    IF positionsCache[a] = <<>> THEN 0
    ELSE positionsCache[a][1].openPositionsCount

CachedWorkingOrders(a) ==
    IF ordersCache[a] = <<>> THEN 0
    ELSE ordersCache[a][1].workingOrdersCount

\* C9: determinePollingMode depends on the cached counts only (an absent
\* row counting as 0): IDLE iff both are 0, CRITICAL iff openPositions > 2
\* or workingOrders > 3, ACTIVE otherwise (2 positions and 3 orders is
\* ACTIVE).
C9_ModeFromCounts ==
    \A a \in Accts :
        LET info == determinePollingMode(Poll, a)
            op == CachedOpenPositions(a)
            wo == CachedWorkingOrders(a)
        IN /\ info.mode \in Modes
           /\ info.mode = "IDLE" <=> (op = 0 /\ wo = 0)
           /\ info.mode = "CRITICAL" <=> (op > 2 \/ wo > 3)
           /\ info.mode = "ACTIVE" <=>
                 (~(op = 0 /\ wo = 0) /\ ~(op > 2 \/ wo > 3))
           /\ (op = 2 /\ wo = 3) => info.mode = "ACTIVE"

\* The cache holds 2 open positions and 3 working orders, and the mode
\* stored from it is ACTIVE.
C9_Witness ==
    \E a \in Accts :
        /\ positionsCache[a] # <<>> /\ ordersCache[a] # <<>>
        /\ CachedOpenPositions(a) = 2 /\ CachedWorkingOrders(a) = 3
        /\ pollingState[a] = "ACTIVE"

\* C10: right after a successful poll completes with no manual override
\* pending, the stored current_mode is determinePollingMode of the latest
\* cached counts.
C10_ModeMatchesCacheAfterPoll ==
    \A a \in justCompleted :
        OverridesPending(a) = 0
            => pollingState[a] = determinePollingMode(Poll, a).mode

\* A poll that changed the mode has completed, after the restart of the
\* account's polling it caused.
C10_Witness ==
    \E a \in justCompleted :
        /\ OverridesPending(a) = 0
        /\ pollingState[a] = "CRITICAL"
        /\ timersMap[a] # <<>>
        /\ \E c \in chains : c.acct = a

(***************************************************************************)
(* Properties of manual overrides, the rate-limit fallback and refresh.    *)
(***************************************************************************)
\* C11: when forcePollingMode(a, M, reason, durationMs) returns, the stored
\* mode of the account is M (and it stays M until durationMs has elapsed).
C11_ForcedModeStoredOnReturn ==
    \A e \in events :
        e.type = "forceReturned" => pollingState[e.acct] = e.mode

\* C12: when the auto-revert timer of a forced mode fires, its callback
\* stores the mode derived from the cache, and when the restart it begins has
\* completed the stored mode is again the mode derived from the cache.
C12_RevertStoresDerivedMode ==
    \A e \in events :
        e.type \in {"revertFired", "revertDone"}
            => pollingState[e.acct] = determinePollingMode(Poll, e.acct).mode

\* The auto-revert fired while the stored mode was not the derived one, and
\* has replaced it by the derived mode.
C12_Witness ==
    \E e \in events :
        /\ e.type = "revertFired"
        /\ e.mode # pollingState[e.acct]
        /\ pollingState[e.acct] = determinePollingMode(Poll, e.acct).mode

\* C13: when the handling of a poll that failed with a rate-limit error
\* ends (no manual override being involved), the stored mode of the account
\* is IDLE and the timers of its accountTimers object run at the IDLE
\* intervals.
C13_RateLimitEndsInIdle ==
    \A e \in events :
        (e.type = "rateLimitHandled" /\ OverridesPending(e.acct) = 0)
            => /\ pollingState[e.acct] = "IDLE"
               /\ \A tm \in timers :
                     (tm.acct = e.acct /\ <<tm.obj>> = timersMap[e.acct])
                        => tm.interval = pollingIntervals["IDLE"][tm.kind]

\* C14: a forceDataRefresh one of whose three polls failed does not resolve
\* (its promise rejects).
C14_RefreshRejectsOnFailedFetch ==
    \A e \in events : e.type = "refreshResolved" => e.mode = "clean"

\* C24: each account has at most one pending poll timer per data kind, and
\* every pending timer belongs to the accountTimers object of the account's
\* latest restart: nothing created before the restart schedules a timer.
C24_OneTimerPerKind ==
    \A a \in Accts :
        /\ \A dataType \in Kinds :
              Cardinality({tm \in timers :
                              tm.acct = a /\ tm.kind = dataType}) <= 1
        /\ \A tm \in timers : tm.acct = a => timersMap[a] = <<tm.obj>>

\* C25: when a poll that changed the mode of its account to M' completes and
\* M' is still the stored mode, every pending timer of the account has the
\* interval of M' for its kind.
C25_TimersFollowModeChange ==
    \A e \in events :
        (e.type = "modeChanged" /\ pollingState[e.acct] = e.mode)
            => \A tm \in timers :
                  tm.acct = e.acct
                      => tm.interval = pollingIntervals[e.mode][tm.kind]

\* The chain of the initializeAccountPolling that startDataCollection called.
IsStartup(c) == c.stack[Len(c.stack)].op \in {"init1", "init2"}

\* No handleRateLimit is under way in the chain.
NotRateLimited(c) ==
    \A k \in DOMAIN c.stack : c.stack[k].op # "pollFail"

\* C26: whatever its fetches return, short of a rate-limit error,
\* initializeAccountPolling makes one positions fetch, then one orders
\* fetch, and then completes: the stored mode is the one derived from the
\* cache and the account has exactly three pending timers, one per kind.
C26_InitializeFetchesTwiceThenThreeTimers ==
    [][\A c \in chains :
          (/\ IsStartup(c)
           /\ NotRateLimited(c)
           /\ \A d \in chains' : d.acct = c.acct => NotRateLimited(d)) =>
             \/ c \in chains'
             \/ /\ c.stack = <<Frame("fetch", "positions", 0),
                               Frame("init1", "-", 0)>>
                /\ [acct |-> c.acct,
                    stack |-> <<Frame("fetch", "orders", 0),
                                Frame("init2", "-", 0)>>] \in chains'
             \/ /\ c.stack = <<Frame("fetch", "orders", 0),
                               Frame("init2", "-", 0)>>
                /\ \A d \in chains' : d.acct # c.acct
                /\ pollingState'[c.acct] = determinePollingMode(Poll, c.acct)'.mode
                /\ Cardinality({tm \in timers' : tm.acct = c.acct}) = 3
                /\ \A dataType \in Kinds :
                      \E tm \in timers' :
                          tm.acct = c.acct /\ tm.kind = dataType]_vars

\* The cache entry of the account for the data kind holds the payload, with
\* a lastUpdated not earlier than t.
EntryHolds(a, dataType, payload, t) ==
    CASE dataType = "balance" ->
           /\ balanceCache[a] # <<>>
           /\ balanceCache[a][1].data = payload
           /\ balanceCache[a][1].lastUpdated >= t
      [] dataType = "positions" ->
           /\ positionsCache[a] # <<>>
           /\ positionsCache[a][1].data = payload
           /\ positionsCache[a][1].lastUpdated >= t
      [] OTHER ->
           /\ ordersCache[a] # <<>>
           /\ ordersCache[a][1].data.statuses = payload
           /\ ordersCache[a][1].lastUpdated >= t

\* C27: when the fetch of a poll succeeds and the poll completes, the cache
\* entry of the account for the polled kind holds the payload just fetched,
\* written not earlier than the poll started.
C27_SuccessfulPollIsCached ==
    [][\A c \in chains :
          \A result \in FetchResults(Head(c.stack).kind) :
              (/\ result.kind = "ok"
               /\ FetchSettles(c, result)
               /\ c.acct \in justCompleted')
                  => EntryHolds(c.acct, Head(c.stack).kind, result.data, now)']_vars

\* The chain of a timer callback that awaits the fetch of its poll.
IsScheduledPoll(c) ==
    /\ Len(c.stack) = 2
    /\ c.stack[1].op = "fetch"
    /\ c.stack[2].op = "timerCb"

\* C28: when the fetch of a scheduled poll fails, with a rate-limit error or
\* any other, the callback ends without a further upstream fetch for the
\* account: the retry is the next tick.
C28_FailedPollFetchesNothingMore ==
    [][\A c \in chains :
          \A result \in FetchResults(Head(c.stack).kind) :
              (/\ IsScheduledPoll(c)
               /\ result.kind # "ok"
               /\ DeepFetchSettles(c, result))
                  => chains' = chains \ {c}]_vars

\* The chain of a timer callback, at any stage.
IsTimerCallback(c) == c.stack[Len(c.stack)].op = "timerCb"

\* The step leaves the stored mode and the timers of every account but a
\* as they are.
OthersUnchanged(a) ==
    \A b \in Accts \ {a} :
        /\ pollingState'[b] = pollingState[b]
        /\ timersMap'[b] = timersMap[b]
        /\ {tm \in timers' : tm.acct = b} = {tm \in timers : tm.acct = b}

C30_OneReversionPending ==
    \A a \in Accts : reverts[a] <= 1

\* The polls of the account for the data kind that await their fetch.
PollsInFlight(a, dataType) ==
    {c \in chains : c.acct = a /\ Head(c.stack).kind = dataType}

\* C31: at most one poll of an account and data kind is in flight at a time.
C31_OnePollInFlight ==
    \A a \in Accts, dataType \in Kinds :
        Cardinality(PollsInFlight(a, dataType)) <= 1

\* The gate has nothing left to do: its worker loop has ended, nothing is
\* queued or executing, and no backoff timer is pending.
GateAtRest ==
    /\ workerPc = "idle"
    /\ requestQueue = <<>>
    /\ executing = {}
    /\ retryTimers = {}

\* C32 (in the form a finite run refutes): when the gate is at rest, every
\* account being polled has, for each data kind, either a pending timer or
\* a callback that can still go on (the request it awaits has settled), so
\* that the kind is polled again.
C32_PollingNeverStrands ==
    GateAtRest
        => \A a \in Accts :
              (timersMap[a] # <<>> \/ \E c \in chains : c.acct = a)
                 => \A dataType \in Kinds :
                       \/ \E tm \in timers :
                             tm.acct = a /\ tm.kind = dataType
                       \/ \E c \in chains :
                             /\ c.acct = a
                             /\ outcome[Head(c.stack).obj] # "pending"

\* The number of initializeAccountPolling calls under way in a call chain,
\* one inside the other.
RECURSIVE Nesting(_)
Nesting(stack) ==
    IF stack = <<>> THEN 0
    ELSE (IF Head(stack).op \in {"init1", "init2"} THEN 1 ELSE 0)
            + Nesting(Tail(stack))

\* C40: the calls a poll makes do not nest without bound: when a fetch made
\* inside a restart of the account's polling is answered with a rate-limit
\* error, the chain does not go one restart deeper, so that an upstream that
\* keeps answering 429 cannot keep the poll from ending.
C40_RestartsDoNotNest ==
    [][\A c \in chains :
          \A result \in FetchResults(Head(c.stack).kind) :
              (/\ Nesting(c.stack) >= 1
               /\ result.kind = "rateLimit"
               /\ DeepFetchSettles(c, result))
                  => \A d \in chains' :
                        d.acct = c.acct => Nesting(d.stack) <= Nesting(c.stack)]_vars

\* stop() has returned: the cache it closed is closed.
Stopped == ~isInitialized

\* C38: once stop() has returned there is no poll timer left, in the tracked
\* map or outside it, so that no callback fetches from upstream any more.
C38_NoTimerAfterStop == Stopped => timers = {}

\* The cache holds orders derived from a fetch that saw the later list.
HoldsLaterOrders(a) ==
    /\ ordersCache[a] # <<>>
    /\ ordersCache[a][1].data.statuses = LaterOrders

\* C39: the cached orders of an account never regress: once orders derived
\* from a later fetch are in the cache, no write puts back orders derived
\* from an earlier fetch.
C39_CachedOrdersNeverRegress ==
    [][\A a \in Accts : HoldsLaterOrders(a) => HoldsLaterOrders(a)']_vars

(***************************************************************************)
(* Properties of the cache and of the read routes.                         *)
(***************************************************************************)
AllKinds == CacheKinds \cup {"pollingState"}

OpenCount(positionsData) ==
    Cardinality({i \in DOMAIN positionsData : positionsData[i] # 0})

WorkingCount(statuses) ==
    Cardinality({i \in DOMAIN statuses : statuses[i] = "Working"})

NonTerminalCount(statuses) ==
    Cardinality({i \in DOMAIN statuses :
                    statuses[i] \notin {"Filled", "Canceled", "Rejected"}})

\* What a read returns after the write w when nothing of the previous entry
\* is left.
ExpectedRead(w) ==
    CASE w.kind \in {"account", "balance"} ->
           <<[data |-> w.data, lastUpdated |-> w.at, age |-> now - w.at]>>
      [] w.kind = "positions" ->
           <<[data |-> w.data, lastUpdated |-> w.at, age |-> now - w.at,
              openPositionsCount |-> OpenCount(w.data)]>>
      [] w.kind = "orders" ->
           <<[data |-> w.data, lastUpdated |-> w.at, age |-> now - w.at,
              workingOrdersCount |-> WorkingCount(w.data.statuses)]>>
      [] OTHER -> w.data

\* C15: after a write for (accountId, kind) a read returns exactly the
\* payload written, the time of that write and the count derived from that
\* payload alone, whatever the entry held before; and a write changes the
\* entry of no other (accountId, kind).
C15_WriteReplacesEntry ==
    /\ [](\A i \in DOMAIN lastWrite :
             (lastWrite[i].applied /\ isInitialized)
                => Read(lastWrite[i].acct, lastWrite[i].kind)
                      = ExpectedRead(lastWrite[i]))
    /\ [][writes' # writes
            => \A a \in Accts, kind \in AllKinds :
                  <<a, kind>> # <<lastWrite'[1].acct, lastWrite'[1].kind>>
                     => Row(a, kind)' = Row(a, kind)]_vars

\* A write has replaced an entry that held another payload.
C15_Witness ==
    /\ isInitialized
    /\ \E i \in DOMAIN lastWrite :
          /\ lastWrite[i].applied /\ lastWrite[i].existed
          /\ ~lastWrite[i].same
          /\ lastWrite[i].kind = "balance"
          /\ lastWrite[i].at > StartTime

C17_SamePayloadSameCount ==
    /\ [][(writes' # writes /\ lastWrite'[1].applied /\ lastWrite'[1].same)
            => LET a == lastWrite'[1].acct
               IN /\ lastWrite'[1].kind = "positions"
                        => positionsCache'[a][1].openPositionsCount
                              = positionsCache[a][1].openPositionsCount
                  /\ lastWrite'[1].kind = "orders"
                        => ordersCache'[a][1].workingOrdersCount
                              = ordersCache[a][1].workingOrdersCount]_vars
    /\ [][\A a \in Accts, kind \in CacheKinds :
             (writes' = writes /\ Read(a, kind) # <<>>
                 /\ Read(a, kind)' # <<>>)
                => Read(a, kind)'[1].age >= Read(a, kind)[1].age]_vars

\* The same positions were written twice, and time has passed since the
\* second write.
C17_Witness ==
    /\ isInitialized
    /\ \E i \in DOMAIN lastWrite :
          /\ lastWrite[i].applied /\ lastWrite[i].same
          /\ lastWrite[i].kind = "positions"
          /\ lastWrite[i].data = <<1, 0, -2>>
          /\ Read(lastWrite[i].acct, "positions")[1].openPositionsCount = 2
          /\ Read(lastWrite[i].acct, "positions")[1].age > 0

\* C18: while the cache is not initialized, a write call changes no entry
\* and every read, of any account, returns nothing.
C18_UninitializedCacheIsInert ==
    /\ [](~isInitialized
             => \A a \in Accts :
                   /\ \A kind \in AllKinds : Read(a, kind) = <<>>
                   /\ \A f \in DOMAIN getAccountSnapshot(Poll, a) :
                         getAccountSnapshot(Poll, a)[f] = <<>>)
    /\ [][(~isInitialized /\ writes' # writes)
            => \A a \in Accts, kind \in AllKinds :
                  Row(a, kind)' = Row(a, kind)]_vars

\* A write was called after close() on a cache that holds an entry.
C18_Witness ==
    /\ ~isInitialized
    /\ \E i \in DOMAIN lastWrite : ~lastWrite[i].applied
    /\ \E a \in Accts, kind \in CacheKinds : Row(a, kind) # <<>>

\* C19: a read route that ran with the cache available made no upstream
\* call, and reported an absent entry as not available yet.
C19_ReadsMakeNoUpstreamCall ==
    \A i \in DOMAIN lastResponse :
        lastResponse[i].available
            => /\ lastResponse[i].upstream = {}
               /\ ~lastResponse[i].existed => lastResponse[i].kind = "empty"

\* C20: an entry that exists is served with status 200 and the payload it
\* holds, without the stale flag when its age is below 600000 ms and with it
\* when its age is 600000 ms or more.
C20_StaleFromTenMinutes ==
    /\ \A i \in DOMAIN lastResponse :
          (lastResponse[i].available /\ lastResponse[i].existed)
             => /\ lastResponse[i].kind \in {"fresh", "stale"}
                /\ lastResponse[i].status = 200
                /\ lastResponse[i].upstream = {}
                /\ lastResponse[i].stale <=> lastResponse[i].age >= 600000
    /\ \A a \in Accts, route \in Routes :
          LET r == RouteAnswer(Poll, a, route)[1]
              kind == IF route = "summary" THEN "balance" ELSE route
          IN (r.available /\ r.existed)
                => /\ r.data = Row(a, kind)[1].data
                   /\ r.age = now - Row(a, kind)[1].lastUpdated
                   /\ r.stale <=> r.age >= 600000

\* An entry that is exactly 600000 ms old was served with the stale flag.
C20_Witness ==
    \E i \in DOMAIN lastResponse :
        /\ lastResponse[i].available /\ lastResponse[i].existed
        /\ lastResponse[i].route = "positions"
        /\ lastResponse[i].age = 600000
        /\ lastResponse[i].stale

(***************************************************************************)
(* Grouping of bracket orders.  An order is a record of the fields the     *)
(* grouping reads; a field that is undefined is 0 (ids) or <<>> (the stop  *)
(* price), and text is "" or one of the key words looked for in it.        *)
(***************************************************************************)
OrderIds == 1..MaxOrders

Order(id, orderType, stopPrice, parentId, linkedId, ocoId, text) ==
    [id |-> id, orderType |-> orderType, stopPrice |-> stopPrice,
     parentId |-> parentId, linkedId |-> linkedId, ocoId |-> ocoId,
     text |-> text]

\* The orders with the id i that upstream may return.  A reference names
\* another order, which may be missing from the list.
OrderShapes(i) ==
    {Order(i, "Market", <<>>, 0, 0, 0, ""),
     Order(i, "Limit", <<>>, 0, 0, 0, "")}
        \cup {Order(i, "Stop", <<95>>, j, 0, 0, "") : j \in OrderIds \ {i}}
        \cup {Order(i, "Limit", <<>>, 0, j, 0, "") : j \in OrderIds \ {i}}
        \cup {Order(i, "Limit", <<>>, 0, 0, j, "") : j \in OrderIds \ {i}}

\* The order lists with distinct ids.
OrderLists ==
    UNION {{l \in [1..n -> UNION {OrderShapes(i) : i \in OrderIds}] :
               \A x, y \in 1..n : x # y => l[x].id # l[y].id} :
           n \in 0..MaxOrders}

\* The order types and free texts of the orders, and the words getOrderRole
\* looks for in them.  An absent orderType or text is "".
OrderTypes ==
    {"", "Market", "Limit", "Stop", "StopLimit", "TrailingStop", "MIT"}
OrderTexts == {"", "SL", "Take Profit", "TP", "Island", "Entry"}
RoleWords ==
    {"stop", "sl", "stoplimit", "limit", "profit", "target", "tp", "market"}

\* The characters of a string.
Chars(str) ==
    CASE str = "" -> <<>>
      [] str = "Market" -> <<"M", "a", "r", "k", "e", "t">>
      [] str = "Limit" -> <<"L", "i", "m", "i", "t">>
      [] str = "Stop" -> <<"S", "t", "o", "p">>
      [] str = "StopLimit" -> <<"S", "t", "o", "p", "L", "i", "m", "i", "t">>
      [] str = "TrailingStop" ->
            <<"T", "r", "a", "i", "l", "i", "n", "g", "S", "t", "o", "p">>
      [] str = "MIT" -> <<"M", "I", "T">>
      [] str = "SL" -> <<"S", "L">>
      [] str = "Take Profit" ->
            <<"T", "a", "k", "e", " ", "P", "r", "o", "f", "i", "t">>
      [] str = "TP" -> <<"T", "P">>
      [] str = "Island" -> <<"I", "s", "l", "a", "n", "d">>
      [] str = "Entry" -> <<"E", "n", "t", "r", "y">>
      [] str = "stop" -> <<"s", "t", "o", "p">>
      [] str = "sl" -> <<"s", "l">>
      [] str = "stoplimit" -> <<"s", "t", "o", "p", "l", "i", "m", "i", "t">>
      [] str = "limit" -> <<"l", "i", "m", "i", "t">>
      [] str = "profit" -> <<"p", "r", "o", "f", "i", "t">>
      [] str = "target" -> <<"t", "a", "r", "g", "e", "t">>
      [] str = "tp" -> <<"t", "p">>
      [] str = "market" -> <<"m", "a", "r", "k", "e", "t">>

UpperCase == <<"E", "I", "L", "M", "P", "S", "T">>
LowerCase == <<"e", "i", "l", "m", "p", "s", "t">>

\* String.prototype.toLowerCase, on the characters.
toLowerCase(chars) ==
    [i \in DOMAIN chars |->
        IF \E k \in DOMAIN UpperCase : UpperCase[k] = chars[i]
        THEN LowerCase[CHOOSE k \in DOMAIN UpperCase : UpperCase[k] = chars[i]]
        ELSE chars[i]]

\* String.prototype.includes, on the characters.
Includes(chars, word) ==
    \E i \in 0..(Len(chars) - Len(word)) :
        SubSeq(chars, i + 1, i + Len(word)) = word

\* The pairs of a string and a word above for which
\* (str || '').toLowerCase().includes(word), and those for which
\* (str || '').toLowerCase() === word.
LowerIncludes ==
    UNION {IF Includes(toLowerCase(Chars(sw[1])), Chars(sw[2]))
           THEN {sw} ELSE {} :
              sw \in (OrderTypes \cup OrderTexts) \X RoleWords}

LowerEquals ==
    UNION {IF toLowerCase(Chars(sw[1])) = Chars(sw[2]) THEN {sw} ELSE {} :
              sw \in (OrderTypes \cup OrderTexts) \X RoleWords}

\* (order.orderType || '').toLowerCase().includes(word)
TypeIncludes(orderType, word) == <<orderType, word>> \in LowerIncludes

\* (order.text || '').toLowerCase().includes(word)
TextIncludes(text, word) == <<text, word>> \in LowerIncludes

\* (order.orderType || '').toLowerCase() === word
TypeIs(orderType, word) == <<orderType, word>> \in LowerEquals

\* getOrderRole with the entry test ahead of the target test.
getOrderRole_EntryBeforeTarget(order) ==
    IF \/ TypeIncludes(order.orderType, "stop")
       \/ order.stopPrice # <<>>
       \/ TextIncludes(order.text, "stop")
       \/ TextIncludes(order.text, "sl")
    THEN "stop"
    ELSE IF \/ TypeIncludes(order.orderType, "market")
            \/ /\ TypeIncludes(order.orderType, "limit")
               /\ order.linkedId = 0
               /\ order.stopPrice = <<>>
    THEN "entry"
    ELSE IF \/ /\ TypeIncludes(order.orderType, "limit")
               /\ \/ TextIncludes(order.text, "profit")
                  \/ TextIncludes(order.text, "target")
                  \/ TextIncludes(order.text, "tp")
            \/ /\ TypeIs(order.orderType, "limit")
               /\ order.linkedId # 0
               /\ order.stopPrice = <<>>
    THEN "target"
    ELSE "other"

\* getOrderRole.
getOrderRole(order) ==
    IF \/ TypeIncludes(order.orderType, "stop")
       \/ order.stopPrice # <<>>
       \/ TextIncludes(order.text, "stop")
       \/ TextIncludes(order.text, "sl")
       \/ TypeIs(order.orderType, "stoplimit")
    THEN "stop"
    ELSE IF \/ /\ TypeIncludes(order.orderType, "limit")
               /\ \/ TextIncludes(order.text, "profit")
                  \/ TextIncludes(order.text, "target")
                  \/ TextIncludes(order.text, "tp")
            \/ /\ TypeIs(order.orderType, "limit")
               /\ order.linkedId # 0
               /\ order.stopPrice = <<>>
    THEN "target"
    ELSE IF \/ TypeIncludes(order.orderType, "market")
            \/ /\ TypeIncludes(order.orderType, "limit")
               /\ order.linkedId = 0
               /\ order.stopPrice = <<>>
    THEN "entry"
    ELSE "other"

\* The test of findRelatedOrders on an order other than the main order.
isRelated(mainOrder, order) ==
    LET linkedRelation ==
            order.linkedId = mainOrder.id \/ mainOrder.linkedId = order.id
        ocoRelation == order.ocoId = order.id \/ order.ocoId = mainOrder.id
        parentChildRelation ==
            order.parentId = mainOrder.id \/ mainOrder.parentId = order.id
        siblingRelation ==
            /\ order.parentId # 0 /\ mainOrder.parentId # 0
            /\ order.parentId = mainOrder.parentId
        sharedLinkedId ==
            mainOrder.linkedId # 0 /\ order.linkedId = mainOrder.linkedId
        linkedBySharedId ==
            mainOrder.linkedId # 0 /\ order.id = mainOrder.linkedId
    IN \/ linkedRelation \/ ocoRelation \/ parentChildRelation
       \/ siblingRelation \/ sharedLinkedId \/ linkedBySharedId

\* findRelatedOrders: the main order, then the orders of the list that are
\* related to it, in list order.
findRelatedOrders(mainOrder, allOrders) ==
    LET Related(o) == o.id # mainOrder.id /\ isRelated(mainOrder, o)
    IN <<mainOrder>> \o SelectSeq(allOrders, Related)

\* The key createBracketOrderGroup sorts by: roleOrder[role] || 3, in which
\* the 0 of 'entry' counts as absent.
SortKey(order) ==
    LET role == getOrderRole(order)
    IN IF role = "stop" THEN 1 ELSE IF role = "target" THEN 2 ELSE 3

\* What groupRelatedOrders returns for one group: the id of the order the
\* group is built on, and for a bracket its size and the order ids of its
\* bracketDetails (0 for null).
Group(orderId, isGroup, orderType, groupSize, entry, stopLoss, takeProfit) ==
    [orderId |-> orderId, isGroup |-> isGroup, orderType |-> orderType,
     groupSize |-> groupSize, entry |-> entry, stopLoss |-> stopLoss,
     takeProfit |-> takeProfit]

\* createBracketOrderGroup: a stable sort by role, then the first order of
\* each role.
createBracketOrderGroup(relatedOrders) ==
    LET Key1(o) == SortKey(o) = 1
        Key2(o) == SortKey(o) = 2
        Key3(o) == SortKey(o) = 3
        sortedOrders == SelectSeq(relatedOrders, Key1)
                           \o SelectSeq(relatedOrders, Key2)
                           \o SelectSeq(relatedOrders, Key3)
        IsEntry(o) == getOrderRole(o) = "entry"
        IsStop(o) == getOrderRole(o) = "stop"
        IsTarget(o) == getOrderRole(o) = "target"
        entries == SelectSeq(sortedOrders, IsEntry)
        stops == SelectSeq(sortedOrders, IsStop)
        targets == SelectSeq(sortedOrders, IsTarget)
        entryOrder == IF entries # <<>> THEN entries[1] ELSE sortedOrders[1]
    IN Group(entryOrder.id, TRUE, "Bracket", Len(relatedOrders),
             entryOrder.id,
             IF stops = <<>> THEN 0 ELSE stops[1].id,
             IF targets = <<>> THEN 0 ELSE targets[1].id)

\* The loop of groupRelatedOrders from the i-th order on.
RECURSIVE GroupFrom(_, _, _, _)
GroupFrom(orders, i, processedOrderIds, acc) ==
    IF i > Len(orders) THEN acc
    ELSE LET order == orders[i]
             relatedOrders == findRelatedOrders(order, orders)
         IN IF order.id \in processedOrderIds
            THEN GroupFrom(orders, i + 1, processedOrderIds, acc)
            ELSE IF Len(relatedOrders) > 1
            THEN GroupFrom(orders, i + 1,
                           processedOrderIds
                              \cup {relatedOrders[k].id :
                                       k \in DOMAIN relatedOrders},
                           Append(acc, createBracketOrderGroup(relatedOrders)))
            ELSE GroupFrom(orders, i + 1, processedOrderIds \cup {order.id},
                           Append(acc,
                                  Group(order.id, FALSE,
                                        IF order.orderType = "" THEN "Single"
                                        ELSE order.orderType,
                                        0, 0, 0, 0)))

groupRelatedOrders_DropsRepeatedType(orders) ==
    LET all == GroupFrom(orders, 1, {}, <<>>)
        Kept(g) == \A k \in DOMAIN all :
                      all[k].orderType = g.orderType => all[k].orderId >= g.orderId
    IN SelectSeq(all, Kept)

\* groupRelatedOrders.
groupRelatedOrders(orders) == GroupFrom(orders, 1, {}, <<>>)

\* The lists of related orders the groups of groupRelatedOrders are built
\* from, group by group: the same loop, keeping relatedOrders (for a
\* standalone order, the order alone).
RECURSIVE RelatedFrom(_, _, _, _)
RelatedFrom(orders, i, processedOrderIds, acc) ==
    IF i > Len(orders) THEN acc
    ELSE LET order == orders[i]
             relatedOrders == findRelatedOrders(order, orders)
         IN IF order.id \in processedOrderIds
            THEN RelatedFrom(orders, i + 1, processedOrderIds, acc)
            ELSE IF Len(relatedOrders) > 1
            THEN RelatedFrom(orders, i + 1,
                             processedOrderIds
                                \cup {relatedOrders[k].id :
                                         k \in DOMAIN relatedOrders},
                             Append(acc, relatedOrders))
            ELSE RelatedFrom(orders, i + 1, processedOrderIds \cup {order.id},
                             Append(acc, <<order>>))

groupMembers(orders) == RelatedFrom(orders, 1, {}, <<>>)

\* The caller holds some list of active orders.
GroupInit ==
    /\ now = StartTime
    /\ GateInit
    /\ PollInit
    /\ CollectorInit
    /\ orderList \in OrderLists
    /\ groupedOrders = <<>>

\* The caller groups its order list.
GroupOrders ==
    /\ SetPoll([Poll EXCEPT !.groupedOrders = groupRelatedOrders(orderList)])
    /\ UNCHANGED <<now, gateVars, chains, fetches>>

GroupNext == GroupOrders

GroupSpec == GroupInit /\ [][GroupNext]_vars

\* The single orders getOrderRole is applied to.
RoleInputs ==
    {Order(1, orderType, stopPrice, 0, linkedId, 0, text) :
        orderType \in OrderTypes, stopPrice \in {<<>>, <<0>>, <<95>>},
        linkedId \in {0, 2}, text \in OrderTexts}

RoleInit ==
    /\ now = StartTime
    /\ GateInit
    /\ PollInit
    /\ CollectorInit
    /\ orderList \in {<<order>> : order \in RoleInputs}
    /\ groupedOrders = <<>>

\* findRelatedOrders on the first order of the list reports the role of each
\* order it found.
ReportRoles ==
    /\ LET related == findRelatedOrders(orderList[1], orderList)
       IN SetPoll([Poll EXCEPT
                     !.groupedOrders =
                         [k \in DOMAIN related |->
                             [id |-> related[k].id,
                              role |-> getOrderRole(related[k])]]])
    /\ UNCHANGED <<now, gateVars, chains, fetches>>

RoleNext == ReportRoles

RoleSpec == RoleInit /\ [][RoleNext]_vars

(***************************************************************************)
(* Properties of the grouping.                                             *)
(***************************************************************************)
\* The list holds exactly an entry (market, no links), its stop (stop price
\* set, parentId the entry) and its target (limit, linkedId the entry).
IsBracketTriple(orders) ==
    /\ Len(orders) = 3
    /\ \E e, st, t \in 1..3 :
          /\ e # st /\ e # t /\ st # t
          /\ orders[e] = Order(orders[e].id, "Market", <<>>, 0, 0, 0, "")
          /\ orders[st].stopPrice # <<>>
          /\ orders[st] = Order(orders[st].id, "Stop", orders[st].stopPrice,
                                orders[e].id, 0, 0, "")
          /\ orders[t] = Order(orders[t].id, "Limit", <<>>, 0, orders[e].id,
                               0, "")

EntryOf(orders) ==
    CHOOSE o \in {orders[k] : k \in DOMAIN orders} : o.orderType = "Market"

StopOf(orders) ==
    CHOOSE o \in {orders[k] : k \in DOMAIN orders} : o.stopPrice # <<>>

TargetOf(orders) ==
    CHOOSE o \in {orders[k] : k \in DOMAIN orders} : o.linkedId # 0

\* C21: grouping an entry, its stop and its target, in whatever order the
\* list holds them, returns one group of size 3 whose entry, stopLoss and
\* takeProfit are the three orders.
C21_BracketGroupedAsOne ==
    IsBracketTriple(orderList) /\ groupedOrders # <<>>
        => /\ Len(groupedOrders) = 1
           /\ groupedOrders[1].isGroup
           /\ groupedOrders[1].groupSize = 3
           /\ groupedOrders[1].entry = EntryOf(orderList).id
           /\ groupedOrders[1].stopLoss = StopOf(orderList).id
           /\ groupedOrders[1].takeProfit = TargetOf(orderList).id

\* Some relation holds between two orders of the list: a link, an OCO
\* reference, parent and child, a common parent or a common linkedId.
SomeRelation(orders) ==
    \E x, y \in DOMAIN orders :
        /\ x # y
        /\ \/ orders[x].linkedId = orders[y].id
           \/ orders[x].ocoId = orders[y].id
           \/ orders[x].parentId = orders[y].id
           \/ orders[x].parentId # 0 /\ orders[x].parentId = orders[y].parentId
           \/ orders[x].linkedId # 0 /\ orders[x].linkedId = orders[y].linkedId

HasRole(members, role) ==
    \E m \in DOMAIN members : getOrderRole(members[m]) = role

\* The order of the list with the id.
OrderOf(orders, id) ==
    orders[CHOOSE k \in DOMAIN orders : orders[k].id = id]

\* C34: in every bracket group the primary record is the member of role
\* entry, and each of bracketDetails.entry, .stopLoss and .takeProfit is null
\* exactly when the group has no member of that role.
C34_BracketDetailsByRole ==
    \A k \in DOMAIN groupedOrders :
        LET g == groupedOrders[k]
            members == groupMembers(orderList)[k]
        IN g.isGroup
              => /\ HasRole(members, "entry")
                      => getOrderRole(OrderOf(orderList, g.orderId)) = "entry"
                 /\ g.entry = 0 <=> ~HasRole(members, "entry")
                 /\ g.stopLoss = 0 <=> ~HasRole(members, "stop")
                 /\ g.takeProfit = 0 <=> ~HasRole(members, "target")

\* The number of orders in the groups: groupSize for a bracket, one for a
\* standalone order.
RECURSIVE SumOfSizes(_)
SumOfSizes(groups) ==
    IF groups = <<>> THEN 0
    ELSE (IF Head(groups).isGroup THEN Head(groups).groupSize ELSE 1)
            + SumOfSizes(Tail(groups))

\* The groups that have the order among their members.
GroupsHolding(orders, id) ==
    LET members == groupMembers(orders)
    IN {k \in DOMAIN members :
           \E m \in DOMAIN members[k] : members[k][m].id = id}

\* C35: groupRelatedOrders partitions its input: every order of the list is
\* a member of exactly one emitted group, and the group sizes add up to the
\* length of the list.
C35_GroupsPartitionOrders ==
    groupedOrders # <<>>
        => /\ \A i \in DOMAIN orderList :
                 Cardinality(GroupsHolding(orderList, orderList[i].id)) = 1
           /\ SumOfSizes(groupedOrders) = Len(orderList)

\* The order with the id is in the list findRelatedOrders returns.
InRelated(related, id) == \E k \in DOMAIN related : related[k].id = id

\* C36: the related test is symmetric: for any two orders A and B of the
\* list that was grouped, B is among the orders related to A exactly when A
\* is among the orders related to B.
C36_RelatedIsSymmetric ==
    groupedOrders # <<>>
        => \A i, j \in DOMAIN orderList :
              InRelated(findRelatedOrders(orderList[i], orderList),
                        orderList[j].id)
                 <=> InRelated(findRelatedOrders(orderList[j], orderList),
                               orderList[i].id)

\* What the order is, in the words of the role rules.
TypeMentions(order, word) ==
    Includes(toLowerCase(Chars(order.orderType)), Chars(word))

TextMentions(order, word) ==
    Includes(toLowerCase(Chars(order.text)), Chars(word))

HasStopPrice(order) == order.stopPrice # <<>>

\* C33: getOrderRole gives 'stop' when the type mentions stop, a stop price
\* is present or the text mentions stop or sl; otherwise 'target' for a
\* limit order whose text mentions profit, target or tp, or which has a
\* linkedId and no stop price; otherwise 'entry' for a market order or a
\* limit order with neither linkedId nor stop price; otherwise 'other'.
C33_RolePrecedence ==
    \A k \in DOMAIN groupedOrders :
        LET order == orderList[k]
            stopRule ==
                \/ TypeMentions(order, "stop")
                \/ HasStopPrice(order)
                \/ TextMentions(order, "stop")
                \/ TextMentions(order, "sl")
            targetRule ==
                /\ TypeMentions(order, "limit")
                /\ \/ TextMentions(order, "profit")
                   \/ TextMentions(order, "target")
                   \/ TextMentions(order, "tp")
                   \/ order.linkedId # 0 /\ ~HasStopPrice(order)
            entryRule ==
                \/ TypeMentions(order, "market")
                \/ /\ TypeMentions(order, "limit")
                   /\ order.linkedId = 0
                   /\ ~HasStopPrice(order)
        IN groupedOrders[k].role =
              IF stopRule THEN "stop"
              ELSE IF targetRule THEN "target"
              ELSE IF entryRule THEN "entry"
              ELSE "other"

\* A limit order without links whose text mentions the profit has been given
\* the role target, not entry.
C33_Witness ==
    /\ groupedOrders # <<>>
    /\ orderList[1].orderType = "Limit"
    /\ orderList[1].linkedId = 0
    /\ orderList[1].text = "Take Profit"
    /\ groupedOrders[1].role = "target"

====
